---- MODULE Spec2Model ----
(***************************************************************************)
(* Murasaki-Translator: the resilience layer around the inference          *)
(* endpoint.  The module holds one state machine per component:            *)
(*   SpecAC     AdaptiveConcurrency (murasaki_flow_v2/utils)               *)
(*   SpecTP     TextProtector.protect / restore (core/text_protector.py)   *)
(*   SpecRun    main loop + single background post-processing worker       *)
(*   SpecRetry  the per-block retry loop of main()                         *)
(* Every specification constrains its own variables and leaves the other   *)
(* components' variables at their idle values.                             *)
(***************************************************************************)
EXTENDS Integers, Sequences, FiniteSets, TLC

VARIABLES
    \* ---- AdaptiveConcurrency ----
    ac_cfg,       \* dataclass fields fixed by __post_init__
    ac_current,   \* self._current
    ac_streak,    \* self._success_streak
    ac_total,     \* self._success_total
    ac_run,       \* ghost: note_success calls since the last failure or increment
    ac_pc,        \* per worker: "idle" | "note_error" (classified, waiting for the lock)
    ac_msg,       \* per worker: the message argument of the running note_error
    ac_kind,      \* per worker: local `kind`; after return, the returned value
    \* ---- TextProtector (one instance) ----
    tp_cfg,       \* [patterns, enabled, aggressive_cleaning]
    tp_repl,      \* self.replacements: insertion-ordered <<placeholder, original>> pairs
    tp_counter,   \* self.counter
    tp_text,      \* the text handed from protect to the model and to restore
    tp_pc,        \* "new" | "protected" | "output" | "restored"
    tp_src,       \* ghost: the argument of the last protect call
    tp_log,       \* ghost: <<original, placeholder, pattern index>> of every replace_match call of the last protect
    tp_segs,      \* ghost: the segments the model output was written from
    \* ---- main(): the block loop and the background worker ----
    run_cfg,      \* [n, skip, text_protect, markers, save_summary]
    run_i,        \* loop variable i of `for i, block in enumerate(blocks)`
    run_pc,       \* position of the main thread
    bp_owner,     \* batch_protector.replacements: the block whose protect created the dict
    bp_size,      \* batch_protector.replacements: number of entries in the dict
    ex_queue,     \* work queue of ThreadPoolExecutor(max_workers=1)
    ex_done,      \* finished futures: <<block, "ok" | "error">>
    w_pc,         \* position of the worker thread inside post_process_and_save
    w_job,        \* block_idx of the running job
    w_dict,       \* the dict the worker's restore iterates (its creator)
    w_size,       \* size of that dict when the iteration started
    f_out,        \* the output file: the records written so far
    \* ---- main(): the retry loop of one block ----
    rt_cfg,       \* args and the block: [max_retries, coverage_retries, glossary, total,
                  \*   line_check, tol_abs, tol_pct, src, i, temperature, retry_temp_boost]
    rt_attempt,   \* loop variable `attempt`
    rt_pc,        \* "loop" | "done"
    rt_reason,    \* retry_reason: "none" | "empty" | "glossary" | "line_check"
    rt_parsed,    \* parsed_lines (with the attempt that produced them)
    rt_best,      \* best_result: NoResult or [att, lines, coverage]
    rt_last_cov,  \* last_coverage
    rt_missed,    \* len(last_missed_terms)
    rt_events,    \* the JSON_RETRY events written to stdout
    rt_hist,      \* ghost: the parsed output of every attempt so far
    rt_calls,     \* ghost: the inference call of every attempt so far:
                  \*   [temp, feedback, reason] as computed at the top of the loop body
    rt_result,    \* parsed_lines handed to executor.submit
    \* ---- PoolProvider with endpoints, and the threads calling it ----
    pl_cfg,       \* [strategy, weights]: the profile's strategy and raw endpoint weights
    pl_rr,        \* position of _endpoint_rr in its cycle
    pl_pc,        \* per caller: "idle" | "build" | "has_req" | "send_pick" |
                  \*   "send" | "send_fresh" (about to call provider.send on idx)
    pl_idx,       \* per caller: local idx
    pl_req,       \* per caller: the request at hand, [tag, built]
    pl_sel,       \* ghost: the results of next(_endpoint_rr), in lock order
    pl_ops,       \* number of method calls started
    \* ---- LineAligner.align ----
    la_src,       \* src_lines
    la_dst,       \* dst_lines
    la_pc,        \* "new" | "done"
    la_out,       \* the list of pairs returned
    \* ---- InferenceEngine.chat_completion ----
    en_cfg,       \* [rep_base, rep_max, stream]; penalties in hundredths
    en_idx,       \* idx: position in the ladder `attempts`
    en_pc,        \* "request" | "stream" | "returned"
    en_text,      \* full_text
    en_reasoning, \* full_reasoning is not empty
    en_chunks,    \* number of chunks consumed from the current stream
    en_cb,        \* number of stream_callback calls for the current stream
    en_hist,      \* ghost: how each finished request ended: "ok" | "loop" | "error"
    en_reqs,      \* ghost: the ladder positions of the requests issued
    en_ret,       \* the returned string: [think, text]
    en_token_count, \* the attribute self._token_count, NoCount while it does not exist
    en_usage,     \* self.last_usage
    en_calls,     \* number of chat_completion calls made on this engine
    \* ---- _RpmLimiter of one endpoint, and the threads calling acquire ----
    lm_rpm,       \* self.rpm
    lm_elapsed,   \* time.time() - _window_start in ticks, capped at Window
    lm_count,     \* _count
    lm_lock,      \* holder of _lock, or NoHolder
    lm_pc,        \* per caller: "idle" | "enter" (at `with self._lock`) | "locked" | "sleep"
    lm_wait,      \* per caller: ticks left of its time.sleep
    lm_calls,     \* number of acquire calls started
    lm_slept,     \* ghost, per caller: its current or last acquire has slept
    lm_ages,      \* ghost: age in ticks of every admission younger than Window
    \* ---- main(): the per-block loop and the pause file ----
    ps_cfg,       \* [n, skip]: len(blocks) and skip_blocks
    ps_i,         \* loop variable i
    ps_pc,        \* "loop" | "paused" (inside the while at line 729) | "process" | "done"
    ps_signal,    \* os.path.exists(pause_file)
    ps_toggles,   \* number of times the pause file was created or removed
    ps_started,   \* ghost: the blocks whose inference was started, in order
    ps_waited,    \* ghost: the blocks at which the loop has paused
    \* ---- main(): the attempts of one block and the requests of each chat_completion ----
    bk_cfg,       \* args: [max_retries, rep_base, rep_max, boost]; penalties in hundredths
    bk_attempt,   \* loop variable `attempt` of main
    bk_idx,       \* loop variable `idx` of chat_completion
    bk_pc,        \* "call" (a request is due) | "returned" (chat_completion returned) | "done"
    bk_out,       \* what chat_completion returned: "none" | "empty" | "content"
    bk_sent,      \* ghost: [attempt, idx, penalty] of every request sent
    bk_result,    \* "none" | "attempt" (an attempt's output) | "fallback"
    \* ---- main(): resuming over an existing output file ----
    rs_blocks,    \* the number of lines of each block
    rs_resume,    \* args.resume
    rs_file,      \* the non-empty lines of the output file, each [block, line]
    rs_existing,  \* ghost: the file as it was found
    rs_skip,      \* skip_blocks
    rs_i,         \* loop variable i
    rs_pc         \* "start" | "loop" | "done"

acvars == <<ac_cfg, ac_current, ac_streak, ac_total, ac_run, ac_pc, ac_msg, ac_kind>>
tpvars == <<tp_cfg, tp_repl, tp_counter, tp_text, tp_pc, tp_src, tp_log, tp_segs>>
runvars == <<run_cfg, run_i, run_pc, bp_owner, bp_size, ex_queue, ex_done,
             w_pc, w_job, w_dict, w_size, f_out>>

rtvars == <<rt_cfg, rt_attempt, rt_pc, rt_reason, rt_parsed, rt_best, rt_last_cov,
            rt_missed, rt_events, rt_hist, rt_calls, rt_result>>

plvars == <<pl_cfg, pl_rr, pl_pc, pl_idx, pl_req, pl_sel, pl_ops>>

lavars == <<la_src, la_dst, la_pc, la_out>>

envars == <<en_cfg, en_idx, en_pc, en_text, en_reasoning, en_chunks, en_cb, en_hist,
            en_reqs, en_ret, en_token_count, en_usage, en_calls>>

lmvars == <<lm_rpm, lm_elapsed, lm_count, lm_lock, lm_pc, lm_wait, lm_calls,
            lm_slept, lm_ages>>

psvars == <<ps_cfg, ps_i, ps_pc, ps_signal, ps_toggles, ps_started, ps_waited>>

bkvars == <<bk_cfg, bk_attempt, bk_idx, bk_pc, bk_out, bk_sent, bk_result>>

rsvars == <<rs_blocks, rs_resume, rs_file, rs_existing, rs_skip, rs_i, rs_pc>>

vars == <<acvars, tpvars, runvars, rtvars, plvars, lavars, envars, lmvars, psvars, bkvars, rsvars>>

\* the variables of the other components, left alone by a component's actions
notAC == <<tpvars, runvars, rtvars, plvars, lavars, envars, lmvars, psvars, bkvars, rsvars>>
notTP == <<acvars, runvars, rtvars, plvars, lavars, envars, lmvars, psvars, bkvars, rsvars>>
notRun == <<acvars, tpvars, rtvars, plvars, lavars, envars, lmvars, psvars, bkvars, rsvars>>
notRetry == <<acvars, tpvars, runvars, plvars, lavars, envars, lmvars, psvars, bkvars, rsvars>>
notPool == <<acvars, tpvars, runvars, rtvars, lavars, envars, lmvars, psvars, bkvars, rsvars>>
notLA == <<acvars, tpvars, runvars, rtvars, plvars, envars, lmvars, psvars, bkvars, rsvars>>
notEngine == <<acvars, tpvars, runvars, rtvars, plvars, lavars, lmvars, psvars, bkvars, rsvars>>
notLimiter == <<acvars, tpvars, runvars, rtvars, plvars, lavars, envars, psvars, bkvars, rsvars>>
notPause == <<acvars, tpvars, runvars, rtvars, plvars, lavars, envars, lmvars, bkvars, rsvars>>
notBlock == <<acvars, tpvars, runvars, rtvars, plvars, lavars, envars, lmvars, psvars, rsvars>>
notResume == <<acvars, tpvars, runvars, rtvars, plvars, lavars, envars, lmvars, psvars, bkvars>>

Max(a, b) == IF a >= b THEN a ELSE b
Min(a, b) == IF a <= b THEN a ELSE b
\* int(math.ceil(x / 2)) for a non-negative int x
CeilHalf(x) == (x + 1) \div 2

(***************************************************************************)
(* AdaptiveConcurrency                                                     *)
(***************************************************************************)
\* cap on _success_total (the counter is unbounded in the code)
MaxSuccesses == 3
\* largest max_limit argument tried
MaxLimitArg == 5

Workers == {"w1", "w2"}
NoStart == -1   \* start_limit is None

\* An error message is a sequence of whitespace-separated words.
Messages ==
    { <<>>, <<"429">>, <<"503">>, <<"timeout">>, <<"4290">>,
      <<"503", "429">>, <<"rate", "limit">> }

\* _RATE_LIMIT_RE = (?:\b429\b|rate\s*limit|rate_limited), re.I
RateLimitSearch(m) ==
    \E i \in 1..Len(m) :
        \/ m[i] \in {"429", "rate_limited", "ratelimit"}
        \/ m[i] = "rate" /\ i < Len(m) /\ m[i + 1] = "limit"
\* _SERVER_ERROR_RE = \b5\d{2}\b , or the literal "5xx"
ServerErrorSearch(m) == \E i \in 1..Len(m) : m[i] \in {"500", "502", "503", "5xx"}
\* _TIMEOUT_RE = (?:timeout|timed\s*out|network), re.I
TimeoutSearch(m) ==
    \E i \in 1..Len(m) :
        \/ m[i] \in {"timeout", "network"}
        \/ m[i] = "timed" /\ i < Len(m) /\ m[i + 1] = "out"

\* mutant: the server-error test runs before the rate-limit test
classify_error_ServerFirst(m) ==
    IF m = <<>> THEN "unknown"
    ELSE IF ServerErrorSearch(m) THEN "server_error"
    ELSE IF RateLimitSearch(m) THEN "rate_limited"
    ELSE IF TimeoutSearch(m) THEN "network"
    ELSE "other"

classify_error(m) ==
    IF m = <<>> THEN "unknown"
    ELSE IF RateLimitSearch(m) THEN "rate_limited"
    ELSE IF ServerErrorSearch(m) THEN "server_error"
    ELSE IF TimeoutSearch(m) THEN "network"
    ELSE "other"

\* __post_init__: the normalised bounds and the initial limit
PostInit(min_arg, max_arg, start_arg, target, warmup) ==
    LET mn == Max(1, min_arg)
        mx == Max(mn, max_arg)
    IN  [ min_limit |-> mn,
          max_limit |-> mx,
          success_target |-> target,
          warmup_successes |-> warmup,
          start |-> IF start_arg = NoStart
                      THEN Max(mn, CeilHalf(mx))
                      ELSE Max(mn, Min(start_arg, mx)) ]

ACConfigs ==
    { PostInit(a, b, s, tw[1], tw[2]) :
        a \in {0, 2}, b \in {1, MaxLimitArg}, s \in {NoStart, 0, MaxLimitArg + 4},
        tw \in {<<2, 0>>, <<1, 2>>, <<2, 1>>} }

\* mutant: the increment forgets the `_current < max_limit` test
SuccessLimit_NoCap(cfg, cur, total, streak) ==
    IF total + 1 <= cfg.warmup_successes THEN cur + 1
    ELSE IF streak + 1 >= cfg.success_target THEN cur + 1
    ELSE cur

\* mutant: after the warm-up every success raises the limit
SuccessLimit_EverySuccess(cfg, cur, total, streak) ==
    IF cur < cfg.max_limit THEN cur + 1 ELSE cur

\* note_success: the new _current, given the state before the call
SuccessLimit(cfg, cur, total, streak) ==
    IF total + 1 <= cfg.warmup_successes
      THEN (IF cur < cfg.max_limit THEN cur + 1 ELSE cur)
      ELSE IF streak + 1 >= cfg.success_target /\ cur < cfg.max_limit
             THEN cur + 1
             ELSE cur

\* note_success: the new _success_streak
SuccessStreak(cfg, cur, total, streak) ==
    IF total + 1 <= cfg.warmup_successes THEN 0
    ELSE IF streak + 1 >= cfg.success_target /\ cur < cfg.max_limit THEN 0
    ELSE streak + 1

\* note_error: the new _current for a classified failure
ErrorLimit(cfg, cur, kind) ==
    IF kind = "rate_limited" THEN Max(cfg.min_limit, CeilHalf(cur))
    ELSE IF kind \in {"server_error", "network"} THEN Max(cfg.min_limit, cur - 1)
    ELSE cur

ACInit ==
    /\ ac_cfg \in ACConfigs
    /\ ac_current = ac_cfg.start
    /\ ac_streak = 0
    /\ ac_total = 0
    /\ ac_run = 0
    /\ ac_pc = [w \in Workers |-> "idle"]
    /\ ac_msg = [w \in Workers |-> <<>>]
    /\ ac_kind = [w \in Workers |-> "none"]

\* note_success(): the whole body runs under the lock
NoteSuccess(w) ==
    /\ ac_pc[w] = "idle"
    /\ ac_total < MaxSuccesses
    /\ ac_total' = ac_total + 1
    /\ ac_current' = SuccessLimit(ac_cfg, ac_current, ac_total, ac_streak)
    /\ ac_streak' = SuccessStreak(ac_cfg, ac_current, ac_total, ac_streak)
    /\ ac_run' = IF ac_current' > ac_current THEN 0 ELSE ac_run + 1
    /\ ac_kind' = [ac_kind EXCEPT ![w] = "none"]
    /\ ac_msg' = [ac_msg EXCEPT ![w] = <<>>]
    /\ UNCHANGED <<ac_cfg, ac_pc, notAC>>

\* note_error(message), line 72: classify outside the lock
NoteErrorClassify(w) ==
    /\ ac_pc[w] = "idle"
    /\ \E m \in Messages :
        /\ ac_msg' = [ac_msg EXCEPT ![w] = m]
        /\ ac_kind' = [ac_kind EXCEPT ![w] = classify_error(m)]
    /\ ac_pc' = [ac_pc EXCEPT ![w] = "note_error"]
    /\ UNCHANGED <<ac_cfg, ac_current, ac_streak, ac_total, ac_run, notAC>>

\* note_error(message), lines 73-79: the locked read-modify-write, then return kind
NoteErrorApply(w) ==
    /\ ac_pc[w] = "note_error"
    /\ ac_streak' = 0
    /\ ac_run' = 0
    /\ ac_current' = ErrorLimit(ac_cfg, ac_current, ac_kind[w])
    /\ ac_pc' = [ac_pc EXCEPT ![w] = "idle"]
    /\ UNCHANGED <<ac_cfg, ac_total, ac_msg, ac_kind, notAC>>

ACNext ==
    \E w \in Workers :
        \/ NoteSuccess(w)
        \/ NoteErrorClassify(w)
        \/ NoteErrorApply(w)


(***************************************************************************)
(* TextProtector.  A text is a sequence of characters (one-character       *)
(* strings); the full-width form of a character c is written c \o "fw".    *)
(***************************************************************************)
\* number of tokens a source text is built from
MaxTokens == 3
\* number of segments a model output is built from
MaxSegs == 3

WS == {" "}
DigitChars == <<"0", "1", "2", "3", "4", "5", "6", "7", "8", "9">>
IsDigit(c) == \E i \in 1..10 : DigitChars[i] = c
DigitValue(c) == (CHOOSE i \in 1..10 : DigitChars[i] = c) - 1

\* _to_mangled_potential: the characters of the translation table that occur here
HalfWidth == {"0", "1", "2", "3", "4", "5", "6", "7", "8", "9", "@", "<", ">", "a", "b", "x"}
to_mangled_potential(c) == IF c \in HalfWidth THEN c \o "fw" ELSE c

RECURSIVE Str(_)
\* str(n) for n >= 0
Str(n) == IF n < 10 THEN <<DigitChars[n + 1]>>
          ELSE Str(n \div 10) \o <<DigitChars[(n % 10) + 1]>>

\* mutant: the index is left out of the placeholder
Placeholder_NoIndex(n) == <<"@", "@">>

\* placeholder_format "@{index}@" with {index} replaced by str(counter)
Placeholder(n) == <<"@">> \o Str(n) \o <<"@">>

\* The patterns: r'<[^>]+>', r'<a>', r'^<a>', r'\d', and one that does not compile.
PatTag == [kind |-> "tag"]
PatLitA == [kind |-> "lit", s |-> <<"<", "a", ">">>]
PatStartA == [kind |-> "start", s |-> <<"<", "a", ">">>]
PatDigit == [kind |-> "digit"]
PatInvalid == [kind |-> "invalid"]

RECURSIVE FirstAt(_, _, _)
\* index of the first c in text at or after pos, 0 if none
FirstAt(text, pos, c) ==
    IF pos > Len(text) THEN 0
    ELSE IF text[pos] = c THEN pos
    ELSE FirstAt(text, pos + 1, c)

\* re match of pat anchored at pos: index of its last character, 0 if no match
MatchEnd(pat, text, pos) ==
    IF pat.kind = "tag" THEN
        IF text[pos] # "<" THEN 0
        ELSE LET j == FirstAt(text, pos + 1, ">")
             IN  IF j >= pos + 2 THEN j ELSE 0
    ELSE IF pat.kind \in {"lit", "start"} THEN
        IF (pat.kind = "lit" \/ pos = 1)
           /\ pos + Len(pat.s) - 1 <= Len(text)
           /\ SubSeq(text, pos, pos + Len(pat.s) - 1) = pat.s
          THEN pos + Len(pat.s) - 1 ELSE 0
    ELSE IF pat.kind = "digit" THEN
        IF IsDigit(text[pos]) THEN pos ELSE 0
    ELSE 0

\* the first placeholder of the dict whose original equals orig, <<>> if none
LookupOriginal(repl, orig) ==
    IF \E i \in 1..Len(repl) : repl[i][2] = orig
      THEN repl[CHOOSE i \in 1..Len(repl) :
                  /\ repl[i][2] = orig
                  /\ \A j \in 1..(i - 1) : repl[j][2] # orig][1]
      ELSE <<>>

\* dict assignment d[k] = v: overwrite in place or append
DictSet(d, k, v) ==
    IF \E i \in 1..Len(d) : d[i][1] = k
      THEN [i \in 1..Len(d) |-> IF d[i][1] = k THEN <<k, v>> ELSE d[i]]
      ELSE Append(d, <<k, v>>)

\* mutant: a fresh placeholder for every match, no reuse
replace_match_NoReuse(original, st) ==
    [ placeholder |-> Placeholder(st.counter),
      repl |-> DictSet(st.repl, Placeholder(st.counter), original),
      counter |-> st.counter + 1 ]

\* replace_match (lines 75-85)
replace_match(original, st) ==
    LET found == LookupOriginal(st.repl, original)
    IN  IF found # <<>>
          THEN [placeholder |-> found, repl |-> st.repl, counter |-> st.counter]
          ELSE [ placeholder |-> Placeholder(st.counter),
                 repl |-> DictSet(st.repl, Placeholder(st.counter), original),
                 counter |-> st.counter + 1 ]

RECURSIVE SubProtect(_, _, _, _)
\* re.sub(pattern, replace_match, text): leftmost non-overlapping matches
SubProtect(pat, text, pos, st) ==
    IF pos > Len(text) THEN st
    ELSE LET e == MatchEnd(pat, text, pos)
         IN  IF e = 0
               THEN SubProtect(pat, text, pos + 1,
                               [st EXCEPT !.out = Append(@, text[pos])])
               ELSE LET original == SubSeq(text, pos, e)
                        r == replace_match(original, st)
                    IN  SubProtect(pat, text, e + 1,
                          [ out |-> st.out \o r.placeholder,
                            repl |-> r.repl,
                            counter |-> r.counter,
                            pi |-> st.pi,
                            log |-> Append(st.log, <<original, r.placeholder, st.pi>>) ])

RECURSIVE ProtectPatterns(_, _, _)
\* the loop over self.patterns; a pattern that raises re.error is skipped
ProtectPatterns(pats, i, st) ==
    IF i > Len(pats) THEN st
    ELSE IF pats[i].kind = "invalid" THEN ProtectPatterns(pats, i + 1, st)
    ELSE ProtectPatterns(pats, i + 1,
            SubProtect(pats[i], st.out, 1, [st EXCEPT !.out = <<>>, !.pi = i]))

\* mutant: protect keeps the map and the counter of the previous call
ProtectStart_NoReset(text, repl, counter) ==
    [out |-> text, repl |-> repl, counter |-> counter, pi |-> 0, log |-> <<>>]

\* protect, lines 68-72: state reset
ProtectStart(text, repl, counter) ==
    [out |-> text, repl |-> <<>>, counter |-> 1, pi |-> 0, log |-> <<>>]

\* protect(text) on a protector whose state is (repl, counter)
Protect(cfg, text, repl, counter) ==
    IF ~cfg.enabled
      THEN [out |-> text, repl |-> repl, counter |-> counter, pi |-> 0, log |-> <<>>]
      ELSE ProtectPatterns(cfg.patterns, 1, ProtectStart(text, repl, counter))

RECURSIVE FirstInt(_, _, _)
\* int of the first run of digits of the placeholder (re.search(r'(\d+)')), 0 if none
FirstInt(ph, pos, acc) ==
    IF pos > Len(ph) THEN (IF acc < 0 THEN 0 ELSE acc)
    ELSE IF IsDigit(ph[pos])
           THEN FirstInt(ph, pos + 1, (IF acc < 0 THEN 0 ELSE acc * 10) + DigitValue(ph[pos]))
    ELSE IF acc < 0 THEN FirstInt(ph, pos + 1, acc)
    ELSE acc

ItemIdx(item) == FirstInt(item[1], 1, -1)

\* mutant: ascending order
SortedItems_Ascending(repl) ==
    LET RECURSIVE Pick(_)
        Pick(rest) ==
            IF rest = <<>> THEN <<>>
            ELSE LET k == CHOOSE i \in 1..Len(rest) :
                            /\ \A j \in 1..Len(rest) : ItemIdx(rest[j]) >= ItemIdx(rest[i])
                            /\ \A j \in 1..(i - 1) : ItemIdx(rest[j]) > ItemIdx(rest[i])
                 IN  <<rest[k]>> \o Pick(SubSeq(rest, 1, k - 1) \o SubSeq(rest, k + 1, Len(rest)))
    IN  Pick(repl)

\* items.sort(key=idx, reverse=True): descending, equal keys keep their order
SortedItems(repl) ==
    LET RECURSIVE Pick(_)
        Pick(rest) ==
            IF rest = <<>> THEN <<>>
            ELSE LET k == CHOOSE i \in 1..Len(rest) :
                            /\ \A j \in 1..Len(rest) : ItemIdx(rest[j]) <= ItemIdx(rest[i])
                            /\ \A j \in 1..(i - 1) : ItemIdx(rest[j]) < ItemIdx(rest[i])
                 IN  <<rest[k]>> \o Pick(SubSeq(rest, 1, k - 1) \o SubSeq(rest, k + 1, Len(rest)))
    IN  Pick(repl)

RECURSIVE SkipWS(_, _)
\* \s* : the position after the whitespace run that starts at pos
SkipWS(text, pos) ==
    IF pos <= Len(text) /\ text[pos] \in WS THEN SkipWS(text, pos + 1) ELSE pos

RECURSIVE FuzzyEnd(_, _, _, _, _)
\* the fuzzy pattern of placeholder ph (lines 125-140) anchored at pos: every
\* character in half- or full-width form, followed by \s* except after the last
\* one unless aggressive_cleaning.  Returns the position after the match, 0 if none.
FuzzyEnd(text, pos, ph, i, aggressive) ==
    IF i > Len(ph) THEN pos
    ELSE IF pos > Len(text) THEN 0
    ELSE IF text[pos] \notin {ph[i], to_mangled_potential(ph[i])} THEN 0
    ELSE IF i = Len(ph) /\ ~aggressive THEN pos + 1
    ELSE FuzzyEnd(text, SkipWS(text, pos + 1), ph, i + 1, aggressive)

RECURSIVE SubRestore(_, _, _, _, _)
\* re.sub(fuzzy_pattern, lambda m: original, text)
SubRestore(text, pos, ph, original, aggressive) ==
    IF pos > Len(text) THEN <<>>
    ELSE LET e == FuzzyEnd(text, pos, ph, 1, aggressive)
         IN  IF e = 0
               THEN <<text[pos]>> \o SubRestore(text, pos + 1, ph, original, aggressive)
               ELSE original \o SubRestore(text, e, ph, original, aggressive)

RECURSIVE RestoreItems(_, _, _, _)
RestoreItems(text, items, i, aggressive) ==
    IF i > Len(items) THEN text
    ELSE RestoreItems(SubRestore(text, 1, items[i][1], items[i][2], aggressive),
                      items, i + 1, aggressive)

\* restore(text) with the protector's current map
Restore(cfg, text, repl) ==
    IF ~cfg.enabled \/ repl = <<>> THEN text
    ELSE RestoreItems(text, SortedItems(repl), 1, cfg.aggressive_cleaning)

\* ---- inputs ----
RECURSIVE Flatten(_)
Flatten(ss) == IF ss = <<>> THEN <<>> ELSE Head(ss) \o Flatten(Tail(ss))

SrcTokens ==
    { <<"<", "a", ">">>, <<"<", "b", ">">>, <<" ">>, <<"2">>, <<" ", "2", " ">>, <<"x">>,
      <<"@", "1", "@">> }

\* the sources after which a model output of its own, or a second protect call
\* on the same instance, is explored
EchoSources == { <<"<", "a", ">">>, <<"<", "a", ">", "<", "b", ">">> }

RECURSIVE SeqsUpTo(_, _)
SeqsUpTo(S, n) ==
    IF n = 0 THEN {<<>>}
    ELSE LET shorter == SeqsUpTo(S, n - 1)
         IN  shorter \cup {Append(q, x) : q \in shorter, x \in S}

SrcTexts == {Flatten(q) : q \in SeqsUpTo(SrcTokens, MaxTokens)}

TPConfigs ==
    { [patterns |-> ps, enabled |-> TRUE, aggressive_cleaning |-> ag] :
        ps \in { <<PatTag>>, <<PatInvalid, PatTag, PatLitA>>, <<PatStartA, PatTag>>,
                 <<PatTag, PatDigit>> },
        ag \in BOOLEAN }
    \cup { [patterns |-> <<PatTag>>, enabled |-> FALSE, aggressive_cleaning |-> FALSE] }

\* A segment of a model output: plain text, or an echo of a placeholder of the
\* map written exactly, in full-width characters, or with whitespace inside.
PlainSegs == {[kind |-> "plain", text |-> t] : t \in {<<" ">>, <<"2">>}}
EchoSegs(repl) ==
    {[kind |-> "echo", k |-> k, form |-> f] :
        k \in 1..Len(repl), f \in {"exact", "fullwidth", "spaced"}}

RECURSIVE Spaced(_)
Spaced(ph) == IF Len(ph) <= 1 THEN ph ELSE <<Head(ph), " ">> \o Spaced(Tail(ph))

RenderSeg(repl, seg) ==
    IF seg.kind = "plain" THEN seg.text
    ELSE LET ph == repl[seg.k][1]
         IN  IF seg.form = "exact" THEN ph
             ELSE IF seg.form = "fullwidth"
                    THEN [i \in 1..Len(ph) |-> to_mangled_potential(ph[i])]
             ELSE Spaced(ph)
ExpectSeg(repl, seg) == IF seg.kind = "plain" THEN seg.text ELSE repl[seg.k][2]

Render(repl, segs) == Flatten([i \in 1..Len(segs) |-> RenderSeg(repl, segs[i])])
Expect(repl, segs) == Flatten([i \in 1..Len(segs) |-> ExpectSeg(repl, segs[i])])

TPInit ==
    /\ tp_cfg \in TPConfigs
    /\ tp_repl = <<>>
    /\ tp_counter = 1
    /\ tp_text = <<>>
    /\ tp_pc = "new"
    /\ tp_src = <<>>
    /\ tp_log = <<>>
    /\ tp_segs = <<>>

\* protector.protect(T); may be called again on the same instance
TPProtect ==
    /\ \/ tp_pc = "new"
       \/ tp_pc = "restored" /\ tp_segs = <<>> /\ tp_src \in EchoSources
    /\ \E T \in SrcTexts :
         LET r == Protect(tp_cfg, T, tp_repl, tp_counter)
         IN  /\ tp_src' = T
             /\ tp_text' = r.out
             /\ tp_repl' = r.repl
             /\ tp_counter' = r.counter
             /\ tp_log' = r.log
    /\ tp_pc' = "protected"
    /\ tp_segs' = <<>>
    /\ UNCHANGED <<tp_cfg, notTP>>

\* the model answers with a text of its own that echoes placeholders
TPModelOutput ==
    /\ tp_pc = "protected"
    /\ tp_src \in EchoSources
    /\ tp_repl # <<>>
    /\ \E segs \in SeqsUpTo(PlainSegs \cup EchoSegs(tp_repl), MaxSegs) :
         /\ segs # <<>>
         /\ tp_segs' = segs
         /\ tp_text' = Render(tp_repl, segs)
    /\ tp_pc' = "output"
    /\ UNCHANGED <<tp_cfg, tp_repl, tp_counter, tp_src, tp_log, notTP>>

\* protector.restore(text)
TPRestore ==
    /\ tp_pc \in {"protected", "output"}
    /\ tp_text' = Restore(tp_cfg, tp_text, tp_repl)
    /\ tp_pc' = "restored"
    /\ UNCHANGED <<tp_cfg, tp_repl, tp_counter, tp_src, tp_log, tp_segs, notTP>>

TPNext == TPProtect \/ TPModelOutput \/ TPRestore

(***************************************************************************)
(* main(): the loop over the blocks, the shared batch_protector and the    *)
(* single-worker executor that runs post_process_and_save.                 *)
(* The dict batch_protector.replacements is identified by the block whose  *)
(* protect() call created it and by the number of entries put in so far.   *)
(***************************************************************************)
\* number of blocks of the document
NumBlocks == 3
\* most placeholders one block gets
MaxMarkers == 2

NoBlock == -1
Blocks == 0..(NumBlocks - 1)

RunConfigs ==
    { [n |-> NumBlocks, skip |-> sk, text_protect |-> tp, markers |-> mk, save_summary |-> ss] :
        sk \in 0..(NumBlocks - 1), tp \in BOOLEAN,
        mk \in [Blocks -> 0..MaxMarkers], ss \in BOOLEAN }

RunInit ==
    /\ run_cfg \in RunConfigs
    /\ run_i = 0
    /\ run_pc = "loop"
    /\ bp_owner = NoBlock
    /\ bp_size = 0
    /\ ex_queue = <<>>
    /\ ex_done = <<>>
    /\ w_pc = "idle"
    /\ w_job = NoBlock
    /\ w_dict = NoBlock
    /\ w_size = 0
    /\ f_out = <<>>

\* lines 720-723: a block below skip_blocks is skipped
MainSkip ==
    /\ run_pc = "loop"
    /\ run_i < run_cfg.n
    /\ run_i < run_cfg.skip
    /\ run_i' = run_i + 1
    /\ UNCHANGED <<run_cfg, run_pc, bp_owner, bp_size, ex_queue, ex_done,
                   w_pc, w_job, w_dict, w_size, f_out, notRun>>

\* protect(), lines 69-70, on the one shared protector: a new empty dict
ProtectReset(owner, size, i) == <<i, 0>>

\* line 745: batch_protector.protect(...) starts; disabled protection returns at once
MainProtectBegin ==
    /\ run_pc = "loop"
    /\ run_i < run_cfg.n
    /\ run_i >= run_cfg.skip
    /\ IF run_cfg.text_protect
         THEN /\ bp_owner' = ProtectReset(bp_owner, bp_size, run_i)[1]
              /\ bp_size' = ProtectReset(bp_owner, bp_size, run_i)[2]
              /\ run_pc' = "protect"
         ELSE /\ UNCHANGED <<bp_owner, bp_size>>
              /\ run_pc' = "translate"
    /\ UNCHANGED <<run_cfg, run_i, ex_queue, ex_done, w_pc, w_job, w_dict, w_size,
                   f_out, notRun>>

\* line 84: replace_match stores one more placeholder
MainProtectInsert ==
    /\ run_pc = "protect"
    /\ bp_owner = run_i
    /\ bp_size < run_cfg.markers[run_i]
    /\ bp_size' = bp_size + 1
    /\ UNCHANGED <<run_cfg, run_i, run_pc, bp_owner, ex_queue, ex_done,
                   w_pc, w_job, w_dict, w_size, f_out, notRun>>

\* line 92: protect returns
MainProtectEnd ==
    /\ run_pc = "protect"
    /\ bp_owner = run_i => bp_size = run_cfg.markers[run_i]
    /\ run_pc' = "translate"
    /\ UNCHANGED <<run_cfg, run_i, bp_owner, bp_size, ex_queue, ex_done,
                   w_pc, w_job, w_dict, w_size, f_out, notRun>>

\* lines 864-1033: the retry loop of the block (see SpecRetry) and the fallback
MainTranslate ==
    /\ run_pc = "translate"
    /\ run_pc' = "submit"
    /\ UNCHANGED <<run_cfg, run_i, bp_owner, bp_size, ex_queue, ex_done,
                   w_pc, w_job, w_dict, w_size, f_out, notRun>>

\* lines 1047-1052, 1085: executor.submit(post_process_and_save, block_idx=i, ...)
MainSubmit ==
    /\ run_pc = "submit"
    /\ ex_queue' = Append(ex_queue, run_i)
    /\ run_i' = run_i + 1
    /\ run_pc' = "loop"
    /\ UNCHANGED <<run_cfg, bp_owner, bp_size, ex_done, w_pc, w_job, w_dict, w_size,
                   f_out, notRun>>

\* line 1247: executor.shutdown(wait=True) is entered
MainShutdown ==
    /\ run_pc = "loop"
    /\ run_i = run_cfg.n
    /\ run_pc' = "shutdown"
    /\ UNCHANGED <<run_cfg, run_i, bp_owner, bp_size, ex_queue, ex_done,
                   w_pc, w_job, w_dict, w_size, f_out, notRun>>

\* shutdown(wait=True) returns when the queue is drained and the worker has finished
ShutdownReturns(queue, wpc) == queue = <<>> /\ wpc = "idle"

\* lines 1247-1298: shutdown returns, the summary is written
MainSummary ==
    /\ run_pc = "shutdown"
    /\ ShutdownReturns(ex_queue, w_pc)
    /\ f_out' = IF run_cfg.save_summary
                  THEN Append(f_out, [kind |-> "summary", pending |-> Len(ex_queue) + (IF w_pc = "idle" THEN 0 ELSE 1)])
                  ELSE f_out
    /\ run_pc' = "done"
    /\ UNCHANGED <<run_cfg, run_i, bp_owner, bp_size, ex_queue, ex_done,
                   w_pc, w_job, w_dict, w_size, notRun>>

\* the worker takes the jobs in submission order
NextJob(queue) == 1

\* the worker thread takes a job and runs post_process_and_save up to line 633
WorkerTake ==
    /\ w_pc = "idle"
    /\ ex_queue # <<>>
    /\ LET k == NextJob(ex_queue)
       IN  /\ w_job' = ex_queue[k]
           /\ ex_queue' = SubSeq(ex_queue, 1, k - 1) \o SubSeq(ex_queue, k + 1, Len(ex_queue))
    /\ w_pc' = "restore"
    /\ w_dict' = NoBlock
    /\ w_size' = 0
    /\ UNCHANGED <<run_cfg, run_i, run_pc, bp_owner, bp_size, ex_done, f_out, notRun>>

\* restore(), line 98: `if not self.enabled or not self.replacements: return text`
WorkerRestoreCheck ==
    /\ w_pc = "restore"
    /\ IF ~run_cfg.text_protect \/ bp_size = 0
         THEN w_pc' = "write"
         ELSE w_pc' = "iterate"
    /\ UNCHANGED <<run_cfg, run_i, run_pc, bp_owner, bp_size, ex_queue, ex_done,
                   w_job, w_dict, w_size, f_out, notRun>>

\* restore(), line 107: the iteration over self.replacements.items() starts
WorkerIterBegin ==
    /\ w_pc = "iterate"
    /\ w_dict' = bp_owner
    /\ w_size' = bp_size
    /\ w_pc' = "iterating"
    /\ UNCHANGED <<run_cfg, run_i, run_pc, bp_owner, bp_size, ex_queue, ex_done,
                   w_job, f_out, notRun>>

\* restore(), lines 107-152: the iteration ends.  A dict that grew meanwhile
\* raises RuntimeError, which post_process_and_save catches at line 711.
WorkerIterEnd ==
    /\ w_pc = "iterating"
    /\ IF bp_owner = w_dict /\ bp_size # w_size
         THEN /\ w_pc' = "idle"
              /\ ex_done' = Append(ex_done, <<w_job, "error">>)
         ELSE /\ w_pc' = "write"
              /\ UNCHANGED ex_done
    /\ UNCHANGED <<run_cfg, run_i, run_pc, bp_owner, bp_size, ex_queue,
                   w_job, w_dict, w_size, f_out, notRun>>

\* lines 668-710: the block is written and the job returns its statistics
WorkerWrite ==
    /\ w_pc = "write"
    /\ f_out' = Append(f_out, [kind |-> "block", block |-> w_job,
                               map |-> w_dict, size |-> w_size])
    /\ ex_done' = Append(ex_done, <<w_job, "ok">>)
    /\ w_pc' = "idle"
    /\ UNCHANGED <<run_cfg, run_i, run_pc, bp_owner, bp_size, ex_queue,
                   w_job, w_dict, w_size, notRun>>

RunNext ==
    \/ MainSkip
    \/ MainProtectBegin
    \/ MainProtectInsert
    \/ MainProtectEnd
    \/ MainTranslate
    \/ MainSubmit
    \/ MainShutdown
    \/ MainSummary
    \/ WorkerTake
    \/ WorkerRestoreCheck
    \/ WorkerIterBegin
    \/ WorkerIterEnd
    \/ WorkerWrite

(***************************************************************************)
(* main(), lines 864-1033: the retry loop of one block.                    *)
(* A line is "t" (it has non-whitespace content) or "w" (whitespace only). *)
(* An attempt's parsed output is [lines, hit, cot]: its lines, the number  *)
(* of glossary terms found in the text and in the reasoning text.          *)
(***************************************************************************)
\* largest --max-retries tried
MaxRetries == 2

FailMarker == "[FAILED]"     \* the line "[翻译失败]"
NoResult == [att |-> -1, lines |-> <<>>, coverage |-> -1]

HasContent(lines) == lines # <<>> /\ \E k \in 1..Len(lines) : lines[k] = "t"
NonEmptyCount(lines) == Cardinality({k \in 1..Len(lines) : lines[k] = "t"})
Abs(x) == IF x < 0 THEN -x ELSE x

\* --output-hit-threshold and --cot-coverage-threshold, in percent
OutputHitThreshold == 60
CotCoverageThreshold == 80

\* calculate_glossary_coverage: output and reasoning coverage in percent and the verdict
calculate_glossary_coverage(hit, cot, total) ==
    LET coverage == IF total = 0 THEN 100 ELSE (hit * 100) \div total
        cot_coverage == IF total = 0 THEN 100 ELSE (cot * 100) \div total
    IN  [ passed |-> (total = 0 \/ coverage >= OutputHitThreshold
                                \/ cot_coverage >= CotCoverageThreshold),
          coverage |-> coverage,
          total |-> total ]

\* mutant: only the absolute tolerance is tested
LineMismatch_AbsOnly(cfg, lines) ==
    Abs(NonEmptyCount(lines) - NonEmptyCount(cfg.src)) > cfg.tol_abs

\* lines 1005-1008: the line-count gate fails
LineMismatch(cfg, lines) ==
    LET src_line_count == NonEmptyCount(cfg.src)
        dst_line_count == NonEmptyCount(lines)
        diff == Abs(dst_line_count - src_line_count)
    IN  \/ diff > cfg.tol_abs
        \/ diff * 100 > cfg.tol_pct * Max(1, src_line_count)

SrcShapes == { <<"t">>, <<"t", "w", "t">> }
OutShapes == { <<>>, <<"w">>, <<"t">>, <<"t", "t">> }

\* glossary: `glossary and args.output_hit_threshold > 0`; total: the glossary
\* terms of more than one character that occur in the source text
\* the blocks of the run: block 0 has one source line, block 1 has three
BlockIndexOf(src) == IF Len(src) = 1 THEN 0 ELSE 1

\* mutant: the event carries the 0-based loop variable
RetryEvent_LoopVariable(cfg, a, type) ==
    [block |-> cfg.i + 1, attempt |-> a, type |-> type]

\* lines 929, 976-986, 1014-1019: the JSON_RETRY record
RetryEvent(cfg, a, type) ==
    [block |-> cfg.i + 1, attempt |-> a + 1, type |-> type]

\* temperatures are in hundredths
DefaultTemperature == 70
DefaultTempBoost == 20
TempFloor == 30
TempCeil == 120
MinTemperature == 10
MaxTemperature == 150

TemperatureArgs ==
    { <<MinTemperature, DefaultTempBoost>>, <<MaxTemperature, DefaultTempBoost>>,
      <<TempFloor, DefaultTempBoost>>, <<TempCeil, DefaultTempBoost>>,
      <<DefaultTemperature, 0>> }

\* --line-tolerance-abs and --line-tolerance-pct (in percent)
ToleranceArgs == { <<0, 100>>, <<1, 20>>, <<1, 100>> }

RetryConfigs ==
    { [ max_retries |-> mr, coverage_retries |-> cr, glossary |-> gt[1], total |-> gt[2],
        line_check |-> lc, tol_abs |-> 0, tol_pct |-> 20, src |-> sl, i |-> BlockIndexOf(sl),
        temperature |-> DefaultTemperature, retry_temp_boost |-> DefaultTempBoost ] :
        mr \in 0..MaxRetries, cr \in {1, 3},
        gt \in { <<FALSE, 0>>, <<TRUE, 0>>, <<TRUE, 2>> },
        lc \in BOOLEAN, sl \in SrcShapes }
    \cup
    { [ max_retries |-> mr, coverage_retries |-> 3, glossary |-> TRUE, total |-> 1,
        line_check |-> FALSE, tol_abs |-> 0, tol_pct |-> 20, src |-> <<"t">>,
        i |-> BlockIndexOf(<<"t">>), temperature |-> tb[1], retry_temp_boost |-> tb[2] ] :
        mr \in 0..MaxRetries, tb \in TemperatureArgs }
    \cup
    { [ max_retries |-> mr, coverage_retries |-> 3, glossary |-> FALSE, total |-> 0,
        line_check |-> TRUE, tol_abs |-> tol[1], tol_pct |-> tol[2], src |-> sl,
        i |-> BlockIndexOf(sl), temperature |-> DefaultTemperature,
        retry_temp_boost |-> DefaultTempBoost ] :
        mr \in 0..MaxRetries, tol \in ToleranceArgs, sl \in SrcShapes }

\* lines 880-887: current_temp of an attempt made with retry_reason rr
CurrentTemp(cfg, a, rr) ==
    IF rr = "glossary"
      THEN Max(cfg.temperature - a * cfg.retry_temp_boost, TempFloor)
      ELSE Min(cfg.temperature + a * cfg.retry_temp_boost, TempCeil)

\* line 892: whether the attempt's user message gets the glossary feedback
\* (retry_prompt_feedback is a store_true flag whose default is True)
FeedbackInjected(cfg, a, rr, missed) ==
    a > 0 /\ cfg.glossary /\ missed > 0 /\ rr = "glossary"

\* lines 880-905: the call an attempt makes
AttemptCall(cfg, a, rr, missed) ==
    [ temp |-> CurrentTemp(cfg, a, rr),
      feedback |-> FeedbackInjected(cfg, a, rr, missed),
      reason |-> rr ]

\* what the engine and the parser can hand back for one attempt
Outputs(cfg) ==
    { [lines |-> ls, hit |-> h, cot |-> c] :
        ls \in OutShapes, h \in 0..cfg.total, c \in {0, cfg.total} }

\* mutant: the fallback leaves the marker line out
Fallback_NoMarker(cfg) == cfg.src

\* line 1033: ["[翻译失败]"] + block.prompt_text.split('\n')
Fallback(cfg) == <<FailMarker>> \o cfg.src

\* mutant: a passing attempt is retried while attempts remain
GatesDecide_RetryOnPass(cfg, a, rr, out, best) ==
    [ reason |-> rr, retry |-> a < cfg.max_retries, event |-> "line_check",
      parsed |-> [att |-> a, lines |-> out.lines],
      best |-> best, ran_glossary |-> FALSE, coverage |-> 100 ]

\* mutant: a glossary miss is never skipped in favour of another failure
GatesDecide_NoPriority(cfg, a, rr, out, best) ==
    LET glossary_on == cfg.glossary
        g == calculate_glossary_coverage(out.hit, out.cot, cfg.total)
        cur == [att |-> a, lines |-> out.lines, coverage |-> g.coverage]
        best1 == IF glossary_on /\ (best = NoResult \/ g.coverage > best.coverage)
                   THEN cur ELSE best
        miss == glossary_on /\ g.total > 0 /\ ~g.passed
        skipped == FALSE
        rr1 == IF miss /\ ~skipped THEN "glossary" ELSE rr
        coverage_attempts == Min(a + 1, cfg.coverage_retries)
        gl_retry == miss /\ ~skipped
                    /\ coverage_attempts < cfg.coverage_retries /\ a < cfg.max_retries
        use_best == miss /\ ~skipped /\ ~gl_retry
                    /\ best1 # NoResult /\ best1.coverage > g.coverage
        parsed1 == IF use_best THEN [att |-> best1.att, lines |-> best1.lines]
                   ELSE [att |-> a, lines |-> out.lines]
        lc_fail == ~gl_retry /\ cfg.line_check /\ LineMismatch(cfg, parsed1.lines)
        lc_retry == lc_fail /\ a < cfg.max_retries
    IN  [ reason |-> IF lc_retry THEN "line_check" ELSE rr1,
          retry |-> gl_retry \/ lc_retry,
          event |-> IF gl_retry THEN "glossary" ELSE IF lc_retry THEN "line_check" ELSE "",
          parsed |-> parsed1,
          best |-> best1,
          ran_glossary |-> glossary_on,
          coverage |-> g.coverage ]

\* mutant: the best result is never put in place of the current attempt
GatesDecide_KeepCurrent(cfg, a, rr, out, best) ==
    LET glossary_on == cfg.glossary
        g == calculate_glossary_coverage(out.hit, out.cot, cfg.total)
        cur == [att |-> a, lines |-> out.lines, coverage |-> g.coverage]
        best1 == IF glossary_on /\ (best = NoResult \/ g.coverage > best.coverage)
                   THEN cur ELSE best
        miss == glossary_on /\ g.total > 0 /\ ~g.passed
        skipped == miss /\ rr # "none" /\ rr # "glossary"
        rr1 == IF miss /\ ~skipped THEN "glossary" ELSE rr
        coverage_attempts == Min(a + 1, cfg.coverage_retries)
        gl_retry == miss /\ ~skipped
                    /\ coverage_attempts < cfg.coverage_retries /\ a < cfg.max_retries
        use_best == FALSE
        parsed1 == IF use_best THEN [att |-> best1.att, lines |-> best1.lines]
                   ELSE [att |-> a, lines |-> out.lines]
        lc_fail == ~gl_retry /\ cfg.line_check /\ LineMismatch(cfg, parsed1.lines)
        lc_retry == lc_fail /\ a < cfg.max_retries
    IN  [ reason |-> IF lc_retry THEN "line_check" ELSE rr1,
          retry |-> gl_retry \/ lc_retry,
          event |-> IF gl_retry THEN "glossary" ELSE IF lc_retry THEN "line_check" ELSE "",
          parsed |-> parsed1,
          best |-> best1,
          ran_glossary |-> glossary_on,
          coverage |-> g.coverage ]

\* lines 937-1025 for an attempt with content: the glossary gate, then the
\* line-count gate.  Returns the new retry_reason, whether the loop continues,
\* the JSON_RETRY type written ("" if none), parsed_lines and best_result.
GatesDecide(cfg, a, rr, out, best) ==
    LET glossary_on == cfg.glossary
        g == calculate_glossary_coverage(out.hit, out.cot, cfg.total)
        cur == [att |-> a, lines |-> out.lines, coverage |-> g.coverage]
        best1 == IF glossary_on /\ (best = NoResult \/ g.coverage > best.coverage)
                   THEN cur ELSE best
        miss == glossary_on /\ g.total > 0 /\ ~g.passed
        skipped == miss /\ rr # "none" /\ rr # "glossary"
        rr1 == IF miss /\ ~skipped THEN "glossary" ELSE rr
        coverage_attempts == Min(a + 1, cfg.coverage_retries)
        gl_retry == miss /\ ~skipped
                    /\ coverage_attempts < cfg.coverage_retries /\ a < cfg.max_retries
        use_best == miss /\ ~skipped /\ ~gl_retry
                    /\ best1 # NoResult /\ best1.coverage > g.coverage
        parsed1 == IF use_best THEN [att |-> best1.att, lines |-> best1.lines]
                   ELSE [att |-> a, lines |-> out.lines]
        lc_fail == ~gl_retry /\ cfg.line_check /\ LineMismatch(cfg, parsed1.lines)
        lc_retry == lc_fail /\ a < cfg.max_retries
    IN  [ reason |-> IF lc_retry THEN "line_check" ELSE rr1,
          retry |-> gl_retry \/ lc_retry,
          event |-> IF gl_retry THEN "glossary" ELSE IF lc_retry THEN "line_check" ELSE "",
          parsed |-> parsed1,
          best |-> best1,
          ran_glossary |-> glossary_on,
          coverage |-> g.coverage ]

RetryInit ==
    /\ rt_cfg \in RetryConfigs
    /\ rt_attempt = 0
    /\ rt_pc = "loop"
    /\ rt_reason = "none"
    /\ rt_parsed = [att |-> -1, lines |-> <<>>]
    /\ rt_best = NoResult
    /\ rt_last_cov = 0
    /\ rt_missed = 0
    /\ rt_events = <<>>
    /\ rt_hist = <<>>
    /\ rt_calls = <<>>
    /\ rt_result = [att |-> -1, lines |-> <<>>]

\* lines 1030-1033: the final fallback, applied to parsed_lines when the loop ends
FinalResult(cfg, parsed) ==
    IF ~HasContent(parsed.lines)
      THEN [att |-> -1, lines |-> Fallback(cfg)]
      ELSE parsed

\* one iteration of `for attempt in range(max_retries + 1)`, lines 876-1028,
\* with an attempt that has no content; the loop's end runs the fallback
AttemptEmpty ==
    /\ rt_pc = "loop"
    /\ \E out \in Outputs(rt_cfg) :
        /\ ~HasContent(out.lines)
        /\ rt_hist' = Append(rt_hist, out)
        /\ rt_calls' = Append(rt_calls, AttemptCall(rt_cfg, rt_attempt, rt_reason, rt_missed))
        /\ rt_reason' = "empty"
        /\ IF rt_attempt < rt_cfg.max_retries
             THEN /\ rt_events' = Append(rt_events, RetryEvent(rt_cfg, rt_attempt, "empty"))
                  /\ rt_attempt' = rt_attempt + 1
                  /\ rt_parsed' = [att |-> rt_attempt, lines |-> out.lines]
                  /\ UNCHANGED <<rt_pc, rt_result>>
             ELSE /\ rt_parsed' = [att |-> rt_attempt, lines |-> out.lines]
                  /\ rt_result' = FinalResult(rt_cfg, rt_parsed')
                  /\ rt_pc' = "done"
                  /\ UNCHANGED <<rt_events, rt_attempt>>
    /\ UNCHANGED <<rt_cfg, rt_best, rt_last_cov, rt_missed, notRetry>>

\* one iteration with an attempt that has content: the gates, then either
\* `continue` or `break` followed by the fallback test
AttemptContent ==
    /\ rt_pc = "loop"
    /\ \E out \in Outputs(rt_cfg) :
        /\ HasContent(out.lines)
        /\ LET d == GatesDecide(rt_cfg, rt_attempt, rt_reason, out, rt_best)
           IN  /\ rt_hist' = Append(rt_hist, out)
               /\ rt_calls' = Append(rt_calls,
                                     AttemptCall(rt_cfg, rt_attempt, rt_reason, rt_missed))
               /\ rt_reason' = d.reason
               /\ rt_best' = d.best
               /\ rt_parsed' = d.parsed
               /\ rt_last_cov' = IF d.ran_glossary THEN d.coverage ELSE rt_last_cov
               /\ rt_missed' = IF d.ran_glossary THEN rt_cfg.total - out.hit ELSE rt_missed
               /\ IF d.retry
                    THEN /\ rt_events' = Append(rt_events,
                                                RetryEvent(rt_cfg, rt_attempt, d.event))
                         /\ rt_attempt' = rt_attempt + 1
                         /\ UNCHANGED <<rt_pc, rt_result>>
                    ELSE /\ rt_result' = FinalResult(rt_cfg, d.parsed)
                         /\ rt_pc' = "done"
                         /\ UNCHANGED <<rt_events, rt_attempt>>
    /\ UNCHANGED <<rt_cfg, notRetry>>

RetryNext == AttemptEmpty \/ AttemptContent

(***************************************************************************)
(* PoolProvider with endpoints (providers/pool.py) and its callers.        *)
(* A weight is kept in tenths (25 is 2.5).  A request's provider_id is     *)
(* [prefix, rest]: whether it starts with "endpoint:" and the characters   *)
(* after the first ":"; None and "" are [prefix |-> FALSE, rest |-> <<>>]. *)
(***************************************************************************)
\* largest number of endpoints of a pool
MaxEndpoints == 2
\* number of build_request / send calls of one run
MaxPoolOps == 5

Callers == {"c1", "c2"}

RawWeights ==
    { [kind |-> "missing", tenths |-> 0], [kind |-> "text", tenths |-> 0],
      [kind |-> "inf", tenths |-> 0], [kind |-> "nan", tenths |-> 0],
      [kind |-> "num", tenths |-> 0], [kind |-> "num", tenths |-> -20],
      [kind |-> "num", tenths |-> 10], [kind |-> "num", tenths |-> 30],
      [kind |-> "num", tenths |-> 25] }

\* mutant: an invalid weight is kept as it is
normalize_weight_Keep(value) == IF value.tenths < 0 THEN -value.tenths ELSE value.tenths

\* _normalize_weight: float(value), 1.0 when that fails, is not finite or is <= 0
normalize_weight(value) ==
    IF value.kind = "num" /\ value.tenths > 0 THEN value.tenths ELSE 10

\* int(round(weight)): round half to even
RoundHalfEven(tenths) ==
    LET q == tenths \div 10
        r == tenths % 10
    IN  IF r < 5 THEN q
        ELSE IF r > 5 THEN q + 1
        ELSE IF q % 2 = 0 THEN q ELSE q + 1

RECURSIVE Repeat(_, _)
Repeat(x, n) == IF n <= 0 THEN <<>> ELSE <<x>> \o Repeat(x, n - 1)

RECURSIVE build_weighted_indices_from(_, _)
build_weighted_indices_from(weights, i) ==
    IF i > Len(weights) THEN <<>>
    ELSE Repeat(i - 1, Max(1, RoundHalfEven(weights[i])))
            \o build_weighted_indices_from(weights, i + 1)

\* _build_weighted_indices
build_weighted_indices(weights) ==
    IF weights = <<>> THEN <<0>> ELSE build_weighted_indices_from(weights, 1)

EndpointWeights(cfg) == [i \in 1..Len(cfg.weights) |-> normalize_weight(cfg.weights[i])]
EndpointCycle(cfg) == build_weighted_indices(EndpointWeights(cfg))
NumEndpoints(cfg) == Len(cfg.weights)

\* mutant: the cursor of the cycle is not advanced
PickRoundRobin_Stuck(cfg, rr) == [idx |-> EndpointCycle(cfg)[rr + 1], rr |-> rr]

\* next(self._endpoint_rr)
PickRoundRobin(cfg, rr) ==
    [idx |-> EndpointCycle(cfg)[rr + 1], rr |-> (rr + 1) % Len(EndpointCycle(cfg))]

\* _pick_endpoint_index, under the lock: the possible results
pick_endpoint_index(cfg, rr) ==
    IF cfg.strategy = "random"
      THEN { [idx |-> k, rr |-> rr] : k \in 0..(NumEndpoints(cfg) - 1) }
      ELSE { PickRoundRobin(cfg, rr) }

\* _endpoint_id
endpoint_id(index) == [prefix |-> TRUE, rest |-> Str(index)]

RECURSIVE DigitsValue(_, _)
DigitsValue(cs, acc) ==
    IF cs = <<>> THEN acc ELSE DigitsValue(Tail(cs), acc * 10 + DigitValue(cs[1]))

AllDigits(cs) == cs # <<>> /\ \A i \in 1..Len(cs) : IsDigit(cs[i])

\* int(text): [ok, val]; ok is FALSE for ValueError
IntParse(cs) ==
    IF AllDigits(cs) THEN [ok |-> TRUE, val |-> DigitsValue(cs, 0)]
    ELSE IF cs # <<>> /\ cs[1] = "-" /\ AllDigits(Tail(cs))
           THEN [ok |-> TRUE, val |-> 0 - DigitsValue(Tail(cs), 0)]
    ELSE [ok |-> FALSE, val |-> 0]

NoIndex == -1   \* _endpoint_from_request returns None

\* mutant: the tag is ignored
endpoint_from_request_Ignore(cfg, tag) == NoIndex

\* _endpoint_from_request
endpoint_from_request(cfg, tag) ==
    IF tag.prefix
      THEN LET p == IntParse(tag.rest)
           IN  IF ~p.ok THEN NoIndex
               ELSE IF 0 <= p.val /\ p.val < NumEndpoints(cfg) THEN p.val
               ELSE NoIndex
      ELSE NoIndex

\* weights with one endpoint's raw weight varied and 1 for the others
PoolWeightLists ==
    { [i \in 1..n |-> IF i = pos THEN w ELSE [kind |-> "num", tenths |-> 10]] :
        n \in 1..MaxEndpoints, pos \in {1, MaxEndpoints}, w \in RawWeights }

\* profiles with strategy "round_robin" (the default) and "random"
PoolConfigs ==
    { [strategy |-> "round_robin", weights |-> ws] : ws \in PoolWeightLists }
    \cup { [strategy |-> "random", weights |-> ws] :
             ws \in {w \in PoolWeightLists : w[1].tenths \in {10, 30}} }

\* provider_id values of requests that did not come from build_request
ForeignTags ==
    { [prefix |-> FALSE, rest |-> <<>>],            \* None or ""
      [prefix |-> FALSE, rest |-> <<"1">>],         \* "1"
      [prefix |-> TRUE, rest |-> <<"x">>],          \* "endpoint:x"
      [prefix |-> TRUE, rest |-> <<"-", "1">>] }    \* "endpoint:-1"
    \cup { endpoint_id(k) : k \in {0, MaxEndpoints - 1, MaxEndpoints} }

NoRequest == [tag |-> [prefix |-> FALSE, rest |-> <<>>], built |-> NoIndex]

PoolInit ==
    /\ pl_cfg \in PoolConfigs
    /\ pl_rr = 0
    /\ pl_pc = [c \in Callers |-> "idle"]
    /\ pl_idx = [c \in Callers |-> NoIndex]
    /\ pl_req = [c \in Callers |-> NoRequest]
    /\ pl_sel = <<>>
    /\ pl_ops = 0

\* build_request, lines 128-129: idx = self._pick_endpoint_index()
BuildPick(c) ==
    /\ pl_pc[c] = "idle"
    /\ pl_ops < MaxPoolOps
    /\ \E r \in pick_endpoint_index(pl_cfg, pl_rr) :
        /\ pl_rr' = r.rr
        /\ pl_idx' = [pl_idx EXCEPT ![c] = r.idx]
        /\ pl_sel' = IF pl_cfg.strategy = "random" THEN pl_sel ELSE Append(pl_sel, r.idx)
    /\ pl_pc' = [pl_pc EXCEPT ![c] = "build"]
    /\ pl_ops' = pl_ops + 1
    /\ UNCHANGED <<pl_cfg, pl_req, notPool>>

\* build_request, lines 130-133: the request is tagged and returned
BuildReturn(c) ==
    /\ pl_pc[c] = "build"
    /\ pl_req' = [pl_req EXCEPT ![c] = [tag |-> endpoint_id(pl_idx[c]), built |-> pl_idx[c]]]
    /\ pl_idx' = [pl_idx EXCEPT ![c] = NoIndex]
    /\ pl_pc' = [pl_pc EXCEPT ![c] = "has_req"]
    /\ UNCHANGED <<pl_cfg, pl_rr, pl_sel, pl_ops, notPool>>

\* a caller holds a request that build_request did not return
ForeignRequest(c) ==
    /\ pl_pc[c] = "idle"
    /\ pl_ops < MaxPoolOps
    /\ \E t \in ForeignTags : pl_req' = [pl_req EXCEPT ![c] = [tag |-> t, built |-> NoIndex]]
    /\ pl_pc' = [pl_pc EXCEPT ![c] = "has_req"]
    /\ UNCHANGED <<pl_cfg, pl_rr, pl_idx, pl_sel, pl_ops, notPool>>

\* send, lines 141-143: idx = self._endpoint_from_request(request)
SendResolve(c) ==
    /\ pl_pc[c] = "has_req"
    /\ pl_ops < MaxPoolOps
    /\ LET idx == endpoint_from_request(pl_cfg, pl_req[c].tag)
       IN  /\ pl_idx' = [pl_idx EXCEPT ![c] = idx]
           /\ pl_pc' = [pl_pc EXCEPT ![c] = IF idx = NoIndex THEN "send_pick" ELSE "send"]
    /\ pl_ops' = pl_ops + 1
    /\ UNCHANGED <<pl_cfg, pl_rr, pl_req, pl_sel, notPool>>

\* send, line 144: idx = self._pick_endpoint_index()
SendPick(c) ==
    /\ pl_pc[c] = "send_pick"
    /\ \E r \in pick_endpoint_index(pl_cfg, pl_rr) :
        /\ pl_rr' = r.rr
        /\ pl_idx' = [pl_idx EXCEPT ![c] = r.idx]
        /\ pl_sel' = IF pl_cfg.strategy = "random" THEN pl_sel ELSE Append(pl_sel, r.idx)
    /\ pl_pc' = [pl_pc EXCEPT ![c] = "send_fresh"]
    /\ UNCHANGED <<pl_cfg, pl_req, pl_ops, notPool>>

\* send, lines 145-146: provider.send(request) on endpoint idx; the caller
\* keeps the request (a retry sends it again) or drops it
SendDispatch(c) ==
    /\ pl_pc[c] \in {"send", "send_fresh"}
    /\ pl_idx' = [pl_idx EXCEPT ![c] = NoIndex]
    /\ \E keep \in BOOLEAN :
        /\ pl_pc' = [pl_pc EXCEPT ![c] = IF keep THEN "has_req" ELSE "idle"]
        /\ pl_req' = [pl_req EXCEPT ![c] = IF keep THEN pl_req[c] ELSE NoRequest]
    /\ UNCHANGED <<pl_cfg, pl_rr, pl_sel, pl_ops, notPool>>

PoolNext ==
    \E c \in Callers :
        \/ BuildPick(c)
        \/ BuildReturn(c)
        \/ ForeignRequest(c)
        \/ SendResolve(c)
        \/ SendPick(c)
        \/ SendDispatch(c)

(***************************************************************************)
(* LineAligner.align (utils/line_aligner.py).                              *)
(* The partner index is int(i / ratio) in IEEE double arithmetic, with     *)
(* ratio the double nearest to longer/shorter.  Doubles are computed       *)
(* exactly here on naturals written as little-endian limb sequences.       *)
(***************************************************************************)
\* largest number of lines on one side
MaxLines == 18

MantissaBits == 53     \* significand bits of a double
LimbBits == 15         \* a natural is a little-endian sequence of limbs below 2^15
Base == 32768

RECURSIVE Pow2(_)
Pow2(k) == IF k = 0 THEN 1 ELSE 2 * Pow2(k - 1)

RECURSIVE LimbsOf(_)
LimbsOf(n) == IF n = 0 THEN <<>> ELSE <<n % Base>> \o LimbsOf(n \div Base)

RECURSIVE AddC(_, _, _)
AddC(a, b, c) ==
    IF a = <<>> /\ b = <<>> THEN (IF c = 0 THEN <<>> ELSE <<c>>)
    ELSE LET x == IF a = <<>> THEN 0 ELSE a[1]
             y == IF b = <<>> THEN 0 ELSE b[1]
             t == x + y + c
         IN  <<t % Base>> \o AddC(IF a = <<>> THEN <<>> ELSE Tail(a),
                                  IF b = <<>> THEN <<>> ELSE Tail(b), t \div Base)
Add(a, b) == AddC(a, b, 0)

RECURSIVE MulC(_, _, _)
\* n * a + c for a small n
MulC(n, a, c) ==
    IF a = <<>> THEN (IF c = 0 THEN <<>> ELSE <<c>>)
    ELSE LET t == n * a[1] + c
         IN  <<t % Base>> \o MulC(n, Tail(a), t \div Base)
MulSmall(n, a) == MulC(n, a, 0)

\* a * 2^k
Shl(a, k) == [j \in 1..(k \div LimbBits) |-> 0] \o MulSmall(Pow2(k % LimbBits), a)

LimbAt(a, j) == IF j <= Len(a) THEN a[j] ELSE 0

\* a >= b
Geq(a, b) ==
    LET n == Max(Len(a), Len(b))
        D == {j \in 1..n : LimbAt(a, j) # LimbAt(b, j)}
    IN  D = {} \/ LET top == CHOOSE j \in D : \A k \in D : k <= j
                  IN  LimbAt(a, top) > LimbAt(b, top)

RECURSIVE DivC(_, _, _)
\* a divided by a small d, limbs taken from the top: [q, rem]
DivC(a, d, j) ==
    IF j > Len(a) THEN [q |-> <<>>, rem |-> 0]
    ELSE LET hi == DivC(a, d, j + 1)
             t == hi.rem * Base + a[j]
         IN  [q |-> <<t \div d>> \o hi.q, rem |-> t % d]
DivSmall(a, d) == DivC(a, d, 1)

RECURSIVE FloorLog2(_)
\* the largest t with 2^t <= n, n >= 1
FloorLog2(n) == IF n < 2 THEN 0 ELSE 1 + FloorLog2(n \div 2)

\* the double nearest to a / b (a >= b >= 1), ties to even: [m, e] stands for m * 2^(e - 52)
DoubleDiv(a, b) ==
    LET t == FloorLog2(a \div b)
        q2 == DivSmall(Shl(LimbsOf(a), MantissaBits - t), b)
        half == DivSmall(q2.q, 2)
        lsb == LimbAt(half.q, 1) % 2
        up == half.rem = 1 /\ (q2.rem # 0 \/ lsb = 1)
    IN  [m |-> IF up THEN Add(half.q, <<1>>) ELSE half.q, e |-> t]

\* the double nearest to i / ratio is >= n, for naturals i and n >= 1:
\* i / ratio >= n - h with h half the gap between n and the double below it
QuotientGeq(i, ratio, n) ==
    LET k == IF n = 1 THEN -1 ELSE FloorLog2(n - 1)
        sh == MantissaBits - k
    IN  Geq(Add(Shl(LimbsOf(i), (MantissaBits - 1) - ratio.e + sh), ratio.m),
            Shl(MulSmall(n, ratio.m), sh))

\* int(i / ratio)
IntQuotient(i, ratio) ==
    LET C == {n \in 0..i : n = 0 \/ QuotientGeq(i, ratio, n)}
    IN  CHOOSE n \in C : \A k \in C : k <= n

\* mutant: the index is not clamped and counts from the top
PartnerIndex_Ceil(i, longer, shorter) == Min(IntQuotient(i, DoubleDiv(longer, shorter)) + 1, shorter - 1)

\* lines 88-91 and 96-98: min(int(i / ratio), len(shorter) - 1), ratio = len(longer) / len(shorter)
PartnerIndex(i, longer, shorter) ==
    Min(IntQuotient(i, DoubleDiv(longer, shorter)), shorter - 1)

EmptyLine == [side |-> "none", n |-> 0]     \* ""
BlankLine == [side |-> "blank", n |-> 0]    \* a line of whitespace

\* lines 60-61: [l.strip() for l in lines if l.strip()]
NonBlank(lines) == SelectSeq(lines, LAMBDA l : l # BlankLine)

\* mutant: equal counts are paired in reverse
ZipLines_Reversed(src, dst) == [j \in 1..Len(src) |-> <<src[j], dst[Len(dst) + 1 - j]>>]

\* line 75: list(zip(src_lines, dst_lines))
ZipLines(src, dst) == [j \in 1..Len(src) |-> <<src[j], dst[j]>>]

\* LineAligner.align
align(src_lines, dst_lines) ==
    LET src == NonBlank(src_lines)
        dst == NonBlank(dst_lines)
    IN  IF src = <<>> /\ dst = <<>> THEN <<>>
        ELSE IF dst = <<>> THEN [j \in 1..Len(src) |-> <<src[j], EmptyLine>>]
        ELSE IF src = <<>> THEN [j \in 1..Len(dst) |-> <<EmptyLine, dst[j]>>]
        ELSE IF Len(src) = Len(dst) THEN ZipLines(src, dst)
        ELSE IF Len(src) > Len(dst)
          THEN [j \in 1..Len(src) |->
                    <<src[j], dst[PartnerIndex(j - 1, Len(src), Len(dst)) + 1]>>]
          ELSE [j \in 1..Len(dst) |->
                    <<src[PartnerIndex(j - 1, Len(dst), Len(src)) + 1], dst[j]>>]

\* n lines of one side, with a blank line in front if asked
LinesOf(side, n, blank) ==
    (IF blank THEN <<BlankLine>> ELSE <<>>) \o [j \in 1..n |-> [side |-> side, n |-> j]]

LAInit ==
    /\ \E n \in 0..MaxLines, b \in BOOLEAN : la_src = LinesOf("src", n, b /\ n <= 2)
    /\ \E n \in 0..MaxLines, b \in BOOLEAN : la_dst = LinesOf("dst", n, b /\ n <= 2)
    /\ la_pc = "new"
    /\ la_out = <<>>

Align ==
    /\ la_pc = "new"
    /\ la_out' = align(la_src, la_dst)
    /\ la_pc' = "done"
    /\ UNCHANGED <<la_src, la_dst, notLA>>

LANext == Align

(***************************************************************************)
(* InferenceEngine.chat_completion (core/engine.py): the ladder of         *)
(* repetition penalties and the repetition guard on the stream.            *)
(***************************************************************************)
\* number of chunks of one stream
MaxChunks == 4

CharLoopLen == 20        \* full_text[-20:] == last_char * 20
PhraseMinLen == 20       \* range(20, limit)
PhraseMaxLen == 1000     \* min(1000, len(full_text) // 2)
PhraseGuardLen == 60     \* len(full_text) > 60
SecondPenalty == 120     \* max(1.2, rep_base + 0.2)
PenaltyStep == 10        \* p += 0.1
PenaltyJump == 20        \* rep_base + 0.2
PenaltySlack == 5        \* rep_max + 0.05

RECURSIVE LadderTail(_, _)
\* lines 117-120: while p <= rep_max + 0.05: attempts.append(round(p, 2)); p += 0.1
LadderTail(p, rep_max) ==
    IF p <= rep_max + PenaltySlack THEN <<p>> \o LadderTail(p + PenaltyStep, rep_max) ELSE <<>>

\* lines 110-120: attempts
Ladder(rep_base, rep_max) ==
    IF rep_base < rep_max
      THEN LET second == Max(SecondPenalty, rep_base + PenaltyJump)
           IN  <<rep_base>> \o (IF second <= rep_max THEN <<second>> ELSE <<>>)
                   \o LadderTail(second + PenaltyStep, rep_max)
      ELSE <<rep_base>>

Attempts(cfg) == Ladder(cfg.rep_base, cfg.rep_max)
IsFinal(cfg, idx) == idx = Len(Attempts(cfg)) - 1

\* the last n characters of text are one and the same character
EndsWithRun(text, n) ==
    Len(text) >= n /\ \A j \in (Len(text) - n + 1)..Len(text) : text[j] = text[Len(text)]

\* lines 225-236: some length in range(20, limit) has the last `length`
\* characters equal to the `length` characters before them
PhraseLoop(text) ==
    /\ Len(text) > PhraseGuardLen
    /\ \E length \in PhraseMinLen..(Min(PhraseMaxLen, Len(text) \div 2) - 1) :
          \A j \in 1..length :
              text[Len(text) - length + j] = text[Len(text) - 2 * length + j]

\* mutant: the guard never fires
LoopDetected_Never(text) == FALSE

\* lines 216-236: the repetition guard after a content chunk
LoopDetected(text) ==
    Len(text) > CharLoopLen /\ (EndsWithRun(text, CharLoopLen) \/ PhraseLoop(text))

Dots(n) == [j \in 1..n |-> "."]

\* a phrase of 20 characters that is not a run of one character
Phrase == <<"x">> \o Dots(PhraseMinLen - 1)

\* delta.content of a chunk
ContentChunks == { <<".">>, Dots(10), Phrase }

EngineConfigs ==
    { [rep_base |-> bm[1], rep_max |-> bm[2], stream |-> st] :
        bm \in { <<100, 100>>, <<100, 110>>, <<100, 120>>, <<100, 130>>, <<130, 150>> },
        st \in BOOLEAN }

NoReturn == [think |-> FALSE, text |-> <<"?">>]

MaxCalls == 2
NoCount == -1
\* last_usage: None, the usage event of the server (its figures are not
\* modelled), or the dict built at lines 254-258
NoUsage == [source |-> "none", completion_tokens |-> 0]
ServerUsage == [source |-> "stream", completion_tokens |-> 0]

\* lines 199-202 and 210-213: the fallback count of one chunk
CountChunk(usage, count) ==
    IF usage = NoUsage
      THEN (IF count = NoCount THEN 0 ELSE count) + 1
      ELSE count

\* lines 245-258: Fallback Usage Construction
FallbackUsage(usage, count) ==
    IF usage = NoUsage /\ count # NoCount
      THEN [source |-> "fallback", completion_tokens |-> count]
      ELSE usage

EngineInit ==
    /\ en_cfg \in EngineConfigs
    /\ en_idx = 0
    /\ en_pc = "request"
    /\ en_text = <<>>
    /\ en_reasoning = FALSE
    /\ en_chunks = 0
    /\ en_cb = 0
    /\ en_hist = <<>>
    /\ en_reqs = <<>>
    /\ en_ret = NoReturn
    /\ en_token_count = NoCount
    /\ en_usage = NoUsage
    /\ en_calls = 1

\* mutant: after a detected loop the call returns at once
AfterLoop_Return(cfg, idx) == "return"

\* lines 262-268: after a detected loop, the next ladder value or the return
AfterLoop(cfg, idx) == IF ~IsFinal(cfg, idx) THEN "continue" ELSE "return"

\* mutant: an error at any ladder value ends the call
AfterError_Stop(cfg, idx) == "return"

\* lines 284-291: after an exception, the return of "" or the next ladder value
AfterError(cfg, idx) == IF IsFinal(cfg, idx) THEN "return" ELSE "continue"

\* lines 127-168: requests.post succeeds and the stream is opened
PostStream ==
    /\ en_pc = "request"
    /\ en_cfg.stream
    /\ en_reqs' = Append(en_reqs, en_idx)
    /\ en_text' = <<>>
    /\ en_reasoning' = FALSE
    /\ en_chunks' = 0
    /\ en_cb' = 0
    /\ en_pc' = "stream"
    /\ UNCHANGED <<en_cfg, en_idx, en_hist, en_ret, en_token_count, en_usage, en_calls,
                   notEngine>>

\* lines 275-282: stream is False, the message content is returned
PostNonStream ==
    /\ en_pc = "request"
    /\ ~en_cfg.stream
    /\ en_reqs' = Append(en_reqs, en_idx)
    /\ \E c \in ContentChunks \cup {<<>>} :
        /\ en_text' = c
        /\ en_ret' = [think |-> FALSE, text |-> c]
    /\ en_pc' = "returned"
    /\ en_hist' = Append(en_hist, "ok")
    /\ en_usage' \in {en_usage, ServerUsage}
    /\ UNCHANGED <<en_cfg, en_idx, en_reasoning, en_chunks, en_cb, en_token_count, en_calls,
                   notEngine>>

\* the request or the stream raises (connection failure, timeout, HTTP error status)
TransportError ==
    /\ \/ en_pc = "request" /\ en_reqs' = Append(en_reqs, en_idx)
       \/ en_pc = "stream" /\ en_reqs' = en_reqs
    /\ en_hist' = Append(en_hist, "error")
    /\ IF AfterError(en_cfg, en_idx) = "return"
         THEN /\ en_ret' = [think |-> FALSE, text |-> <<>>]
              /\ en_pc' = "returned"
              /\ en_idx' = en_idx
         ELSE /\ en_pc' = "request"
              /\ en_idx' = en_idx + 1
              /\ en_ret' = en_ret
    /\ UNCHANGED <<en_cfg, en_text, en_reasoning, en_chunks, en_cb, en_token_count, en_usage,
                   en_calls, notEngine>>

\* lines 192-202: a chunk with reasoning_content only
ReasoningChunk ==
    /\ en_pc = "stream"
    /\ en_chunks < MaxChunks
    /\ ~en_reasoning
    /\ en_reasoning' = TRUE
    /\ en_chunks' = en_chunks + 1
    /\ en_token_count' = CountChunk(en_usage, en_token_count)
    /\ UNCHANGED <<en_cfg, en_idx, en_pc, en_text, en_cb, en_hist, en_reqs, en_ret, en_usage,
                   en_calls, notEngine>>

\* lines 204-240 and 262-274: a chunk with content; when the guard fires the
\* stream is closed and the call continues with the next ladder value or returns
ContentChunk ==
    /\ en_pc = "stream"
    /\ en_chunks < MaxChunks
    /\ \E c \in ContentChunks :
        /\ en_text' = en_text \o c
        /\ en_cb' = en_cb + 1
        /\ en_chunks' = en_chunks + 1
        /\ en_token_count' = CountChunk(en_usage, en_token_count)
        /\ en_usage' = IF LoopDetected(en_text')
                         THEN FallbackUsage(en_usage, en_token_count') ELSE en_usage
        /\ IF LoopDetected(en_text')
             THEN /\ en_hist' = Append(en_hist, "loop")
                  /\ IF AfterLoop(en_cfg, en_idx) = "continue"
                       THEN /\ en_idx' = en_idx + 1
                            /\ en_pc' = "request"
                            /\ en_ret' = en_ret
                       ELSE /\ en_ret' = [think |-> en_reasoning, text |-> en_text']
                            /\ en_pc' = "returned"
                            /\ en_idx' = en_idx
             ELSE UNCHANGED <<en_hist, en_idx, en_pc, en_ret>>
    /\ UNCHANGED <<en_cfg, en_reasoning, en_reqs, en_calls, notEngine>>

\* line 180 and 270-274: "[DONE]" or the end of the stream, no loop detected
StreamEnd ==
    /\ en_pc = "stream"
    /\ en_ret' = [think |-> en_reasoning, text |-> en_text]
    /\ en_pc' = "returned"
    /\ en_hist' = Append(en_hist, "ok")
    /\ en_usage' = FallbackUsage(en_usage, en_token_count)
    /\ UNCHANGED <<en_cfg, en_idx, en_text, en_reasoning, en_chunks, en_cb, en_reqs,
                   en_token_count, en_calls, notEngine>>

\* lines 184-188: a chunk that carries 'usage' and no choices
UsageChunk ==
    /\ en_pc = "stream"
    /\ en_usage # ServerUsage
    /\ en_usage' = ServerUsage
    /\ UNCHANGED <<en_cfg, en_idx, en_pc, en_text, en_reasoning, en_chunks, en_cb, en_hist,
                   en_reqs, en_ret, en_token_count, en_calls, notEngine>>

\* lines 99-123: chat_completion is called again on the same engine
NextCall ==
    /\ en_pc = "returned"
    /\ en_calls < MaxCalls
    /\ en_calls' = en_calls + 1
    /\ en_usage' = NoUsage
    /\ en_idx' = 0
    /\ en_pc' = "request"
    /\ en_text' = <<>>
    /\ en_reasoning' = FALSE
    /\ en_chunks' = 0
    /\ en_cb' = 0
    /\ en_hist' = <<>>
    /\ en_reqs' = <<>>
    /\ en_ret' = NoReturn
    /\ UNCHANGED <<en_cfg, en_token_count, notEngine>>

EngineNext ==
    \/ PostStream
    \/ PostNonStream
    \/ TransportError
    \/ ReasoningChunk
    \/ ContentChunk
    \/ StreamEnd
    \/ UsageChunk
    \/ NextCall

(***************************************************************************)
(* _RpmLimiter (providers/openai_compat.py).  Time is counted in ticks of  *)
(* 20 seconds, so the 60-second window is Window ticks long; the limiter   *)
(* only ever uses the difference time.time() - _window_start.               *)
(***************************************************************************)
MaxAcquires == 4
MaxRpm == 2
Window == 3
NoHolder == "free"

\* mutant: the caller goes to sleep inside the `with self._lock` block
LockAfterBody_HeldInSleep(c, admitted) == IF admitted THEN NoHolder ELSE c

\* the `with` block ends before `return` takes effect and before time.sleep
LockAfterBody(c, admitted) == NoHolder

LimiterInit ==
    /\ lm_rpm \in 0..MaxRpm
    /\ lm_elapsed = 0
    /\ lm_count = 0
    /\ lm_lock = NoHolder
    /\ lm_pc = [c \in Callers |-> "idle"]
    /\ lm_wait = [c \in Callers |-> 0]
    /\ lm_calls = 0
    /\ lm_slept = [c \in Callers |-> FALSE]
    /\ lm_ages = <<>>

\* acquire(), lines 35-37: `if self.rpm <= 0: return`, else enter the loop
\* (OpenAICompatProvider builds no limiter at all for rpm <= 0, line 99)
LimiterCall(c) ==
    /\ lm_pc[c] = "idle"
    /\ lm_calls < MaxAcquires
    /\ lm_calls' = lm_calls + 1
    /\ lm_slept' = [lm_slept EXCEPT ![c] = FALSE]
    /\ IF lm_rpm <= 0
         THEN /\ lm_ages' = Append(lm_ages, 0)
              /\ UNCHANGED lm_pc
         ELSE /\ lm_pc' = [lm_pc EXCEPT ![c] = "enter"]
              /\ UNCHANGED lm_ages
    /\ UNCHANGED <<lm_rpm, lm_elapsed, lm_count, lm_lock, lm_wait, notLimiter>>

\* line 39: `with self._lock:` is entered
LimiterEnter(c) ==
    /\ lm_pc[c] = "enter"
    /\ lm_lock = NoHolder
    /\ lm_lock' = c
    /\ lm_pc' = [lm_pc EXCEPT ![c] = "locked"]
    /\ UNCHANGED <<lm_rpm, lm_elapsed, lm_count, lm_wait, lm_calls, lm_slept, lm_ages,
                   notLimiter>>

\* lines 40-52: the body of the `with` block, then return or time.sleep
LimiterBody(c) ==
    /\ lm_pc[c] = "locked"
    /\ LET elapsed == lm_elapsed
           reset == elapsed >= Window
           count == IF reset THEN 0 ELSE lm_count
           admitted == count < lm_rpm
           wait_seconds == Max(0, Window - elapsed)
       IN  /\ lm_elapsed' = IF reset THEN 0 ELSE lm_elapsed
           /\ lm_count' = IF admitted THEN count + 1 ELSE count
           /\ lm_lock' = LockAfterBody(c, admitted)
           /\ IF admitted
                THEN /\ lm_pc' = [lm_pc EXCEPT ![c] = "idle"]
                     /\ lm_ages' = Append(lm_ages, 0)
                     /\ UNCHANGED <<lm_wait, lm_slept>>
                ELSE /\ lm_pc' = [lm_pc EXCEPT ![c] = "sleep"]
                     /\ lm_wait' = [lm_wait EXCEPT ![c] = wait_seconds]
                     /\ lm_slept' = [lm_slept EXCEPT ![c] = TRUE]
                     /\ UNCHANGED lm_ages
    /\ UNCHANGED <<lm_rpm, lm_calls, notLimiter>>

\* time.sleep returns and the `while True` loop starts over
LimiterWake(c) ==
    /\ lm_pc[c] = "sleep"
    /\ lm_wait[c] = 0
    /\ lm_pc' = [lm_pc EXCEPT ![c] = "enter"]
    /\ UNCHANGED <<lm_rpm, lm_elapsed, lm_count, lm_lock, lm_wait, lm_calls, lm_slept,
                   lm_ages, notLimiter>>

\* the ages after one tick, without the admissions that are now Window old
RECURSIVE Aged(_)
Aged(ages) ==
    IF ages = <<>> THEN <<>>
    ELSE IF Head(ages) + 1 >= Window THEN Aged(Tail(ages))
    ELSE <<Head(ages) + 1>> \o Aged(Tail(ages))

\* the clock advances by one tick
LimiterTick ==
    /\ lm_elapsed' = Min(lm_elapsed + 1, Window)
    /\ lm_wait' = [c \in Callers |-> Max(lm_wait[c] - 1, 0)]
    /\ lm_ages' = Aged(lm_ages)
    /\ UNCHANGED <<lm_rpm, lm_count, lm_lock, lm_pc, lm_calls, lm_slept, notLimiter>>

LimiterNext ==
    \/ \E c \in Callers : LimiterCall(c)
    \/ \E c \in Callers : LimiterEnter(c)
    \/ \E c \in Callers : LimiterBody(c)
    \/ \E c \in Callers : LimiterWake(c)
    \/ LimiterTick

\* every thread and the clock keep running
LimiterFairness ==
    /\ WF_vars(LimiterTick)
    /\ \A c \in Callers :
          WF_vars(LimiterEnter(c)) /\ WF_vars(LimiterBody(c)) /\ WF_vars(LimiterWake(c))

LimiterIdle ==
    /\ lm_rpm = 0
    /\ lm_elapsed = 0
    /\ lm_count = 0
    /\ lm_lock = NoHolder
    /\ lm_pc = [c \in Callers |-> "idle"]
    /\ lm_wait = [c \in Callers |-> 0]
    /\ lm_calls = MaxAcquires
    /\ lm_slept = [c \in Callers |-> FALSE]
    /\ lm_ages = <<>>


(***************************************************************************)
(* main(): the Pause Check of the per-block loop (main.py, lines 720-733). *)
(***************************************************************************)
MaxToggles == 3

\* mutant: the pause file is never seen
PauseFileExists_Never(signal) == FALSE

\* os.path.exists(pause_file)
PauseFileExists(signal) == signal

PauseInit ==
    /\ ps_cfg \in { [n |-> NumBlocks, skip |-> sk] : sk \in 0..(NumBlocks - 1) }
    /\ ps_i = 0
    /\ ps_pc = "loop"
    /\ ps_signal \in BOOLEAN
    /\ ps_toggles = 0
    /\ ps_started = <<>>
    /\ ps_waited = {}

\* lines 720-723: `if i < skip_blocks: continue`
PauseSkip ==
    /\ ps_pc = "loop"
    /\ ps_i < ps_cfg.n
    /\ ps_i < ps_cfg.skip
    /\ ps_i' = ps_i + 1
    /\ UNCHANGED <<ps_cfg, ps_pc, ps_signal, ps_toggles, ps_started, ps_waited, notPause>>

\* lines 726-728: the first os.path.exists(pause_file) of an iteration
PauseCheck ==
    /\ ps_pc = "loop"
    /\ ps_i < ps_cfg.n
    /\ ps_i >= ps_cfg.skip
    /\ IF PauseFileExists(ps_signal)
         THEN /\ ps_pc' = "paused"
              /\ ps_waited' = ps_waited \cup {ps_i}
         ELSE /\ ps_pc' = "process"
              /\ UNCHANGED ps_waited
    /\ UNCHANGED <<ps_cfg, ps_i, ps_signal, ps_toggles, ps_started, notPause>>

\* lines 729-731: `while os.path.exists(pause_file): time.sleep(1)` finds the
\* file gone; while the file is there the loop sleeps and nothing changes
PausePoll ==
    /\ ps_pc = "paused"
    /\ ~PauseFileExists(ps_signal)
    /\ ps_pc' = "process"
    /\ UNCHANGED <<ps_cfg, ps_i, ps_signal, ps_toggles, ps_started, ps_waited, notPause>>

\* lines 733-1085: the block is translated and submitted, the loop goes on
PauseProcess ==
    /\ ps_pc = "process"
    /\ ps_started' = Append(ps_started, ps_i)
    /\ ps_i' = ps_i + 1
    /\ ps_pc' = "loop"
    /\ UNCHANGED <<ps_cfg, ps_signal, ps_toggles, ps_waited, notPause>>

\* the `for` loop ends
PauseLoopEnd ==
    /\ ps_pc = "loop"
    /\ ps_i = ps_cfg.n
    /\ ps_pc' = "done"
    /\ UNCHANGED <<ps_cfg, ps_i, ps_signal, ps_toggles, ps_started, ps_waited, notPause>>

\* someone creates or removes the pause file
PauseToggle ==
    /\ ps_toggles < MaxToggles
    /\ ps_toggles' = ps_toggles + 1
    /\ ps_signal' = ~ps_signal
    /\ UNCHANGED <<ps_cfg, ps_i, ps_pc, ps_started, ps_waited, notPause>>

PauseNext ==
    \/ PauseSkip
    \/ PauseCheck
    \/ PausePoll
    \/ PauseProcess
    \/ PauseLoopEnd
    \/ PauseToggle

\* the main thread keeps running
PauseFairness ==
    /\ WF_vars(PauseSkip) /\ WF_vars(PauseCheck) /\ WF_vars(PausePoll)
    /\ WF_vars(PauseProcess) /\ WF_vars(PauseLoopEnd)

PauseIdle ==
    /\ ps_cfg = [n |-> 0, skip |-> 0]
    /\ ps_i = 0
    /\ ps_pc = "done"
    /\ ps_signal = FALSE
    /\ ps_toggles = MaxToggles
    /\ ps_started = <<>>
    /\ ps_waited = {}


(***************************************************************************)
(* main() calling InferenceEngine.chat_completion: the attempts of one     *)
(* block (main.py 876-1033) and the ladder requests of every attempt      *)
(* (engine.py 109-293).  The client's behaviour and the outcome of the     *)
(* quality gates are left open.                                            *)
(***************************************************************************)
DefaultRepBase == 100
DefaultRepMax == 150
DefaultRepBoost == 10

\* (rep_penalty_base, rep_penalty_max, retry_rep_boost)
PenaltyArgs ==
    { <<DefaultRepBase, DefaultRepMax, DefaultRepBoost>>,
      <<DefaultRepBase, DefaultRepBase, 0>>,
      <<DefaultRepBase, DefaultRepBase + PenaltyStep, DefaultRepBoost>>,
      <<DefaultRepBase, SecondPenalty + PenaltySlack, DefaultRepBoost>>,
      <<DefaultRepMax - PenaltyStep, DefaultRepMax, DefaultRepBoost>>,
      <<SecondPenalty + PenaltyStep, DefaultRepMax, 0>> }

BlockConfigs ==
    { [max_retries |-> mr, rep_base |-> pa[1], rep_max |-> pa[2], boost |-> pa[3]] :
        mr \in 0..MaxRetries, pa \in PenaltyArgs }

\* main.py lines 883 and 887: current_rep_base
CurrentRepBase(cfg, a) == cfg.rep_base + a * cfg.boost

\* the rep_base and rep_max arguments of the attempt's chat_completion call
CallArgs(cfg, a) == [rep_base |-> CurrentRepBase(cfg, a), rep_max |-> cfg.rep_max]

\* mutant: one more retry than max_retries
RetryAllowed_OneMore(cfg, a) == a < cfg.max_retries + 1

\* main.py lines 876, 927, 970, 1010: `attempt < max_retries`
RetryAllowed(cfg, a) == a < cfg.max_retries

BlockInit ==
    /\ bk_cfg \in BlockConfigs
    /\ bk_attempt = 0
    /\ bk_idx = 0
    /\ bk_pc = "call"
    /\ bk_out = "none"
    /\ bk_sent = <<>>
    /\ bk_result = "none"

\* the request of the current ladder value
BlockSend ==
    [ attempt |-> bk_attempt, idx |-> bk_idx,
      penalty |-> Attempts(CallArgs(bk_cfg, bk_attempt))[bk_idx + 1] ]

\* engine.py 127-282: the request is answered without a detected loop
BlockRequestOk ==
    /\ bk_pc = "call"
    /\ bk_sent' = Append(bk_sent, BlockSend)
    /\ bk_out' \in {"empty", "content"}
    /\ bk_pc' = "returned"
    /\ UNCHANGED <<bk_cfg, bk_attempt, bk_idx, bk_result, notBlock>>

\* engine.py 216-240, 262-268: the repetition guard fires
BlockRequestLoop ==
    /\ bk_pc = "call"
    /\ bk_sent' = Append(bk_sent, BlockSend)
    /\ IF AfterLoop(CallArgs(bk_cfg, bk_attempt), bk_idx) = "continue"
         THEN /\ bk_idx' = bk_idx + 1
              /\ UNCHANGED <<bk_pc, bk_out>>
         ELSE /\ bk_out' = "content"
              /\ bk_pc' = "returned"
              /\ UNCHANGED bk_idx
    /\ UNCHANGED <<bk_cfg, bk_attempt, bk_result, notBlock>>

\* engine.py 284-291: the request raises
BlockRequestError ==
    /\ bk_pc = "call"
    /\ bk_sent' = Append(bk_sent, BlockSend)
    /\ IF AfterError(CallArgs(bk_cfg, bk_attempt), bk_idx) = "continue"
         THEN /\ bk_idx' = bk_idx + 1
              /\ UNCHANGED <<bk_pc, bk_out>>
         ELSE /\ bk_out' = "empty"
              /\ bk_pc' = "returned"
              /\ UNCHANGED bk_idx
    /\ UNCHANGED <<bk_cfg, bk_attempt, bk_result, notBlock>>

\* main.py 920-934, 1030-1033: the attempt is empty
BlockEmpty ==
    /\ bk_pc = "returned"
    /\ bk_out = "empty"
    /\ IF RetryAllowed(bk_cfg, bk_attempt)
         THEN /\ bk_attempt' = bk_attempt + 1
              /\ bk_idx' = 0
              /\ bk_pc' = "call"
              /\ bk_out' = "none"
              /\ UNCHANGED bk_result
         ELSE /\ bk_pc' = "done"
              /\ bk_result' = "fallback"
              /\ UNCHANGED <<bk_attempt, bk_idx, bk_out>>
    /\ UNCHANGED <<bk_cfg, bk_sent, notBlock>>

\* main.py 937-1028: the attempt has content; a gate asks for a retry or not
BlockGates ==
    /\ bk_pc = "returned"
    /\ bk_out = "content"
    /\ \E gate_fails \in BOOLEAN :
         IF gate_fails /\ RetryAllowed(bk_cfg, bk_attempt)
           THEN /\ bk_attempt' = bk_attempt + 1
                /\ bk_idx' = 0
                /\ bk_pc' = "call"
                /\ bk_out' = "none"
                /\ UNCHANGED bk_result
           ELSE /\ bk_pc' = "done"
                /\ bk_result' = "attempt"
                /\ UNCHANGED <<bk_attempt, bk_idx, bk_out>>
    /\ UNCHANGED <<bk_cfg, bk_sent, notBlock>>

BlockNext ==
    \/ BlockRequestOk
    \/ BlockRequestLoop
    \/ BlockRequestError
    \/ BlockEmpty
    \/ BlockGates

\* the main thread keeps running and every request comes to an end
BlockFairness ==
    /\ WF_vars(BlockRequestOk \/ BlockRequestLoop \/ BlockRequestError)
    /\ WF_vars(BlockEmpty) /\ WF_vars(BlockGates)

BlockIdle ==
    /\ bk_cfg = [max_retries |-> 0, rep_base |-> 0, rep_max |-> 0, boost |-> 0]
    /\ bk_attempt = 0
    /\ bk_idx = 0
    /\ bk_pc = "done"
    /\ bk_out = "none"
    /\ bk_sent = <<>>
    /\ bk_result = "none"


(***************************************************************************)
(* main(): incremental translation (main.py, lines 84-106, 140-158,        *)
(* 585-607, 720-723 and the write at 668).                                 *)
(***************************************************************************)
MaxResumeBlocks == 3
MaxBlockLines == 2

\* the files to translate: one to MaxResumeBlocks blocks of 1..MaxBlockLines lines
BlockShapes ==
    UNION { [1..n -> 1..MaxBlockLines] : n \in 1..MaxResumeBlocks }

\* the lines a block writes (line 668), as many as it has source lines
Translation(blocks, b) == [l \in 1..blocks[b + 1] |-> [block |-> b, line |-> l]]

RECURSIVE OutputFrom(_, _)
\* the lines written by the blocks of index >= b, in order
OutputFrom(blocks, b) ==
    IF b >= Len(blocks) THEN <<>> ELSE Translation(blocks, b) \o OutputFrom(blocks, b + 1)

\* lines 84-106: the number of non-empty lines of the existing output
load_existing_output(file) == Len(file)

RECURSIVE SkipLoop(_, _, _, _)
\* lines 149-156: the loop of calculate_skip_blocks
SkipLoop(blocks, existing_lines, i, cumulative_lines) ==
    IF i >= Len(blocks)
      THEN Len(blocks)
      ELSE LET cumulative == cumulative_lines + blocks[i + 1]
           IN  IF cumulative >= existing_lines
                 THEN i
                 ELSE SkipLoop(blocks, existing_lines, i + 1, cumulative)

\* lines 140-158
calculate_skip_blocks(blocks, existing_lines) ==
    IF existing_lines <= 0 THEN 0 ELSE SkipLoop(blocks, existing_lines, 0, 0)

\* line 604: 'a' if (args.resume and skip_blocks > 0) else 'w'
OutputMode(resume, skip_blocks) == IF resume /\ skip_blocks > 0 THEN "a" ELSE "w"

ResumeInit ==
    /\ rs_blocks \in BlockShapes
    /\ rs_resume \in BOOLEAN
    /\ rs_file \in { SubSeq(OutputFrom(rs_blocks, 0), 1, E) :
                        E \in 0..Len(OutputFrom(rs_blocks, 0)) }
    /\ rs_existing = rs_file
    /\ rs_skip = 0
    /\ rs_i = 0
    /\ rs_pc = "start"

\* lines 585-607: skip_blocks is computed and the output file is opened
ResumeOpen ==
    /\ rs_pc = "start"
    /\ LET existing_lines == load_existing_output(rs_file)
           skip_blocks == IF rs_resume /\ existing_lines > 0
                            THEN calculate_skip_blocks(rs_blocks, existing_lines)
                            ELSE 0
       IN  /\ rs_skip' = skip_blocks
           /\ IF skip_blocks >= Len(rs_blocks)
                THEN /\ rs_pc' = "done"
                     /\ rs_file' = rs_file
                ELSE /\ rs_pc' = "loop"
                     /\ rs_file' = IF OutputMode(rs_resume, skip_blocks) = "a"
                                     THEN rs_file ELSE <<>>
    /\ UNCHANGED <<rs_blocks, rs_resume, rs_existing, rs_i, notResume>>

\* lines 720-723: `if i < skip_blocks: continue`
ResumeSkip ==
    /\ rs_pc = "loop"
    /\ rs_i < Len(rs_blocks)
    /\ rs_i < rs_skip
    /\ rs_i' = rs_i + 1
    /\ UNCHANGED <<rs_blocks, rs_resume, rs_file, rs_existing, rs_skip, rs_pc, notResume>>

\* lines 725-1052 and 668: the block is translated and its lines are written
ResumeTranslate ==
    /\ rs_pc = "loop"
    /\ rs_i < Len(rs_blocks)
    /\ rs_i >= rs_skip
    /\ rs_file' = rs_file \o Translation(rs_blocks, rs_i)
    /\ rs_i' = rs_i + 1
    /\ UNCHANGED <<rs_blocks, rs_resume, rs_existing, rs_skip, rs_pc, notResume>>

\* the `for` loop ends, line 1247 waits for the writes
ResumeLoopEnd ==
    /\ rs_pc = "loop"
    /\ rs_i = Len(rs_blocks)
    /\ rs_pc' = "done"
    /\ UNCHANGED <<rs_blocks, rs_resume, rs_file, rs_existing, rs_skip, rs_i, notResume>>

ResumeNext ==
    \/ ResumeOpen
    \/ ResumeSkip
    \/ ResumeTranslate
    \/ ResumeLoopEnd

ResumeIdle ==
    /\ rs_blocks = <<>>
    /\ rs_resume = FALSE
    /\ rs_file = <<>>
    /\ rs_existing = <<>>
    /\ rs_skip = 0
    /\ rs_i = 0
    /\ rs_pc = "done"


(***************************************************************************)
(* Specifications                                                          *)
(***************************************************************************)
ACIdle ==
    /\ ac_cfg = PostInit(1, 1, NoStart, 1, 0)
    /\ ac_current = 1
    /\ ac_streak = 0
    /\ ac_total = 0
    /\ ac_run = 0
    /\ ac_pc = [w \in Workers |-> "idle"]
    /\ ac_msg = [w \in Workers |-> <<>>]
    /\ ac_kind = [w \in Workers |-> "none"]

TPIdle ==
    /\ tp_cfg = [patterns |-> <<>>, enabled |-> FALSE, aggressive_cleaning |-> FALSE]
    /\ tp_repl = <<>>
    /\ tp_counter = 1
    /\ tp_text = <<>>
    /\ tp_pc = "new"
    /\ tp_src = <<>>
    /\ tp_log = <<>>
    /\ tp_segs = <<>>

RunIdle ==
    /\ run_cfg = [n |-> 0, skip |-> 0, text_protect |-> FALSE, markers |-> <<>>,
                  save_summary |-> FALSE]
    /\ run_i = 0
    /\ run_pc = "loop"
    /\ bp_owner = NoBlock
    /\ bp_size = 0
    /\ ex_queue = <<>>
    /\ ex_done = <<>>
    /\ w_pc = "idle"
    /\ w_job = NoBlock
    /\ w_dict = NoBlock
    /\ w_size = 0
    /\ f_out = <<>>

RetryIdle ==
    /\ rt_cfg = [ max_retries |-> 0, coverage_retries |-> 0, glossary |-> FALSE, total |-> 0,
                  line_check |-> FALSE, tol_abs |-> 0, tol_pct |-> 0, src |-> <<>>,
                  i |-> 0, temperature |-> 0, retry_temp_boost |-> 0 ]
    /\ rt_attempt = 0
    /\ rt_pc = "done"
    /\ rt_reason = "none"
    /\ rt_parsed = [att |-> -1, lines |-> <<>>]
    /\ rt_best = NoResult
    /\ rt_last_cov = 0
    /\ rt_missed = 0
    /\ rt_events = <<>>
    /\ rt_hist = <<>>
    /\ rt_calls = <<>>
    /\ rt_result = [att |-> -1, lines |-> <<>>]

PoolIdle ==
    /\ pl_cfg = [strategy |-> "round_robin", weights |-> <<>>]
    /\ pl_rr = 0
    /\ pl_pc = [c \in Callers |-> "idle"]
    /\ pl_idx = [c \in Callers |-> NoIndex]
    /\ pl_req = [c \in Callers |-> NoRequest]
    /\ pl_sel = <<>>
    /\ pl_ops = MaxPoolOps

LAIdle ==
    /\ la_src = <<>>
    /\ la_dst = <<>>
    /\ la_pc = "done"
    /\ la_out = <<>>

EngineIdle ==
    /\ en_cfg = [rep_base |-> 100, rep_max |-> 100, stream |-> TRUE]
    /\ en_idx = 0
    /\ en_pc = "returned"
    /\ en_text = <<>>
    /\ en_reasoning = FALSE
    /\ en_chunks = 0
    /\ en_cb = 0
    /\ en_hist = <<>>
    /\ en_reqs = <<>>
    /\ en_ret = NoReturn
    /\ en_token_count = NoCount
    /\ en_usage = NoUsage
    /\ en_calls = MaxCalls

InitAC == ACInit /\ TPIdle /\ RunIdle /\ RetryIdle /\ PoolIdle /\ LAIdle /\ EngineIdle /\ LimiterIdle /\ PauseIdle /\ BlockIdle /\ ResumeIdle
InitTP == TPInit /\ ACIdle /\ RunIdle /\ RetryIdle /\ PoolIdle /\ LAIdle /\ EngineIdle /\ LimiterIdle /\ PauseIdle /\ BlockIdle /\ ResumeIdle
InitRun == RunInit /\ ACIdle /\ TPIdle /\ RetryIdle /\ PoolIdle /\ LAIdle /\ EngineIdle /\ LimiterIdle /\ PauseIdle /\ BlockIdle /\ ResumeIdle
InitRetry == RetryInit /\ ACIdle /\ TPIdle /\ RunIdle /\ PoolIdle /\ LAIdle /\ EngineIdle /\ LimiterIdle /\ PauseIdle /\ BlockIdle /\ ResumeIdle
InitPool == PoolInit /\ ACIdle /\ TPIdle /\ RunIdle /\ RetryIdle /\ LAIdle /\ EngineIdle /\ LimiterIdle /\ PauseIdle /\ BlockIdle /\ ResumeIdle
InitLA == LAInit /\ ACIdle /\ TPIdle /\ RunIdle /\ RetryIdle /\ PoolIdle /\ EngineIdle /\ LimiterIdle /\ PauseIdle /\ BlockIdle /\ ResumeIdle
InitEngine == EngineInit /\ ACIdle /\ TPIdle /\ RunIdle /\ RetryIdle /\ PoolIdle /\ LAIdle /\ LimiterIdle /\ PauseIdle /\ BlockIdle /\ ResumeIdle
InitLimiter == LimiterInit /\ ACIdle /\ TPIdle /\ RunIdle /\ RetryIdle /\ PoolIdle /\ LAIdle /\ EngineIdle /\ PauseIdle /\ BlockIdle /\ ResumeIdle
InitPause == PauseInit /\ LimiterIdle /\ ACIdle /\ TPIdle /\ RunIdle /\ RetryIdle /\ PoolIdle /\ LAIdle /\ EngineIdle /\ BlockIdle /\ ResumeIdle
InitBlock == BlockInit /\ LimiterIdle /\ PauseIdle /\ ACIdle /\ TPIdle /\ RunIdle /\ RetryIdle /\ PoolIdle /\ LAIdle /\ EngineIdle /\ ResumeIdle
InitResume == ResumeInit /\ LimiterIdle /\ PauseIdle /\ BlockIdle /\ ACIdle /\ TPIdle /\ RunIdle /\ RetryIdle /\ PoolIdle /\ LAIdle /\ EngineIdle

SpecAC == InitAC /\ [][ACNext]_vars
SpecTP == InitTP /\ [][TPNext]_vars
SpecRun == InitRun /\ [][RunNext]_vars
SpecRetry == InitRetry /\ [][RetryNext]_vars
SpecPool == InitPool /\ [][PoolNext]_vars
SpecLA == InitLA /\ [][LANext]_vars
SpecEngine == InitEngine /\ [][EngineNext]_vars
SpecLimiter == InitLimiter /\ [][LimiterNext]_vars
SpecLimiterFair == SpecLimiter /\ LimiterFairness
SpecPause == InitPause /\ [][PauseNext]_vars
SpecPauseFair == SpecPause /\ PauseFairness
SpecBlock == InitBlock /\ [][BlockNext]_vars
SpecBlockFair == SpecBlock /\ BlockFairness
SpecResume == InitResume /\ [][ResumeNext]_vars

\* C1: in every reachable state of an AdaptiveConcurrency instance, whatever
\* the interleaving of note_success and note_error calls of the workers, the
\* limit stays within the normalised bounds: min_limit <= _current <= max_limit.
C1_LimitWithinBounds ==
    /\ ac_cfg.min_limit <= ac_current
    /\ ac_current <= ac_cfg.max_limit

\* C1 witness: after successes and a rate-limit failure the limit sits on a bound
\* that differs from its initial value.
C1_Witness ==
    /\ ac_total >= 2
    /\ ac_cfg.min_limit < ac_cfg.max_limit
    /\ ac_current = ac_cfg.max_limit
    /\ ac_current # ac_cfg.start
    /\ \E w \in Workers : ac_pc[w] = "idle" /\ ac_kind[w] = "rate_limited"

\* The limit the failure class of message m prescribes, rate-limit first.
C2_Expected(m, old) ==
    IF m # <<>> /\ RateLimitSearch(m) THEN Max(ac_cfg.min_limit, CeilHalf(old))
    ELSE IF m # <<>> /\ (ServerErrorSearch(m) \/ TimeoutSearch(m))
           THEN Max(ac_cfg.min_limit, old - 1)
    ELSE old

\* C2: the locked step of note_error(m) sets the limit by the failure class of
\* m, a rate-limit signature taking priority over a server/network one:
\* rate-limit -> max(min, ceil(old/2)); 5xx/timeout/network -> max(min, old-1);
\* anything else or empty -> unchanged.  The streak becomes 0 and the total
\* number of successes is unchanged in all three cases.
C2_NoteErrorEffect ==
    [][ \A w \in Workers :
          (ac_pc[w] = "note_error" /\ ac_pc'[w] = "idle") =>
              /\ ac_current' = C2_Expected(ac_msg[w], ac_current)
              /\ ac_streak' = 0
              /\ ac_total' = ac_total ]_vars

\* C2 witness: a note_error whose message carries both a rate-limit and a 5xx
\* signature has returned "rate_limited" and the limit was halved to below
\* what a decrement from the start value reaches.
C2_Witness ==
    \E w \in Workers :
        /\ ac_pc[w] = "idle"
        /\ ac_msg[w] = <<"503", "429">>
        /\ ac_kind[w] = "rate_limited"
        /\ ac_streak = 0
        /\ ac_total = 0
        /\ ac_current = CeilHalf(ac_cfg.start)
        /\ ac_current < ac_cfg.start - 1

\* A text holds a marker collision when a '@' (half- or full-width) occurs in it.
NoMarkerText(T) == \A i \in 1..Len(T) : T[i] \notin {"@", "@fw"}

\* C3: restore(protect(T)) = T for every text T that holds no text readable as
\* a marker, for every pattern list; stated here for the protectors with
\* aggressive cleaning off, which the claim covers, "<a> 2 <b>" included.
C3_RoundTrip ==
    (/\ tp_pc = "restored"
     /\ tp_segs = <<>>
     /\ ~tp_cfg.aggressive_cleaning
     /\ NoMarkerText(tp_src))
        => tp_text = tp_src

\* C9: after protect(T) no two placeholders of the map stand for the same
\* original, every match of one original (whatever pattern matched it) was
\* replaced by the same placeholder, and the map holds exactly the entries this
\* call created, also when the instance was used before.
C9_OneMarkerPerOriginal ==
    tp_pc = "protected" =>
        /\ \A i, j \in 1..Len(tp_repl) :
             (tp_repl[i][2] = tp_repl[j][2] \/ tp_repl[i][1] = tp_repl[j][1]) => i = j
        /\ \A i, j \in 1..Len(tp_log) :
             tp_log[i][1] = tp_log[j][1] => tp_log[i][2] = tp_log[j][2]
        /\ {tp_repl[i] : i \in 1..Len(tp_repl)}
             = {<<tp_log[i][2], tp_log[i][1]>> : i \in 1..Len(tp_log)}
        /\ tp_counter = Len(tp_repl) + 1

\* C9 witness: one original was matched by two different patterns and got one
\* placeholder, next to a second original with its own placeholder.
C9_Witness ==
    /\ tp_pc = "protected"
    /\ Len(tp_repl) = 2
    /\ \E i, j \in 1..Len(tp_log) :
         /\ tp_log[i][1] = tp_log[j][1]
         /\ tp_log[i][3] # tp_log[j][3]
         /\ tp_log[i][2] = tp_log[j][2]

\* C10: restore replaces every echoed placeholder of a model output by its
\* original, whatever the order of the echoes, with full-width characters or
\* whitespace inside a placeholder, and leaves the text between the echoes
\* unchanged; stated for the protectors with aggressive cleaning off.
C10_RestoreEchoes ==
    (/\ tp_pc = "restored"
     /\ tp_segs # <<>>
     /\ ~tp_cfg.aggressive_cleaning)
        => tp_text = Expect(tp_repl, tp_segs)

WrittenBlocks == {k \in 1..Len(f_out) : f_out[k].kind = "block"}

\* C4: the background post-processing of block i restores with the placeholder
\* map created when block i was protected: every block that holds placeholders
\* is written after a restore that used block i's own, complete map.
C4_RestoreUsesOwnMap ==
    \A k \in WrittenBlocks :
        (run_cfg.text_protect /\ run_cfg.markers[f_out[k].block] > 0) =>
            /\ f_out[k].map = f_out[k].block
            /\ f_out[k].size = run_cfg.markers[f_out[k].block]

\* C5: every non-skipped block is written exactly once, in ascending block
\* order, whatever the timing of the main loop and the worker; the summary is
\* written only after every submitted job has finished.
C5_WrittenOnceInOrder ==
    /\ \A a, b \in WrittenBlocks : a < b => f_out[a].block < f_out[b].block
    /\ \A k \in 1..Len(f_out) :
         f_out[k].kind = "summary" => (f_out[k].pending = 0 /\ k = Len(f_out))
    /\ run_pc = "done" =>
         {f_out[k].block : k \in WrittenBlocks} = run_cfg.skip..(run_cfg.n - 1)

\* the parts of C5 that do not depend on a job's outcome
C5_OrderAndSummary ==
    /\ \A a, b \in WrittenBlocks : a < b => f_out[a].block < f_out[b].block
    /\ \A k \in 1..Len(f_out) :
         f_out[k].kind = "summary" => (f_out[k].pending = 0 /\ k = Len(f_out))
    /\ run_pc = "done" =>
         {ex_done[k][1] : k \in 1..Len(ex_done)} = run_cfg.skip..(run_cfg.n - 1)

\* an attempt's output passes every enabled gate: non-empty, glossary coverage, line count
PassesAllGates(cfg, out) ==
    /\ HasContent(out.lines)
    /\ (cfg.glossary /\ cfg.total > 0) =>
           calculate_glossary_coverage(out.hit, out.cot, cfg.total).passed
    /\ cfg.line_check => ~LineMismatch(cfg, out.lines)

GlossaryMissing(cfg, out) ==
    /\ HasContent(out.lines)
    /\ cfg.glossary /\ cfg.total > 0
    /\ ~calculate_glossary_coverage(out.hit, out.cot, cfg.total).passed

\* C6: attempts are issued in order; an attempt that passes every enabled gate
\* ends the loop, the block's result is that attempt's text and the retries
\* are exactly the failed attempts before it; a glossary-missing output
\* followed by a passing output gives exactly one retry and the second text.
C6_StopsAtFirstPassingAttempt ==
    /\ rt_pc = "loop" => rt_attempt = Len(rt_hist)
    /\ \A k \in 1..Len(rt_hist) :
          PassesAllGates(rt_cfg, rt_hist[k]) =>
              /\ k = Len(rt_hist)
              /\ rt_pc = "done"
              /\ rt_result = [att |-> k - 1, lines |-> rt_hist[k].lines]
              /\ Len(rt_events) = k - 1
              /\ \A j \in 1..(k - 1) : ~PassesAllGates(rt_cfg, rt_hist[j])
    /\ ( /\ Len(rt_hist) >= 2
         /\ GlossaryMissing(rt_cfg, rt_hist[1])
         /\ PassesAllGates(rt_cfg, rt_hist[2]) )
       => /\ rt_pc = "done"
          /\ Len(rt_events) = 1
          /\ rt_result = [att |-> 1, lines |-> rt_hist[2].lines]

\* a glossary-missing first attempt, retried for the glossary, then a passing one
C6_Witness ==
    /\ rt_pc = "done"
    /\ Len(rt_hist) = 2
    /\ GlossaryMissing(rt_cfg, rt_hist[1])
    /\ PassesAllGates(rt_cfg, rt_hist[2])
    /\ Len(rt_events) = 1
    /\ rt_events[1].attempt = 1 /\ rt_events[1].type = "glossary"
    /\ rt_result.att = 1

IsAttemptOutput(lines) == \E k \in 1..Len(rt_hist) : rt_hist[k].lines = lines

\* C7: when the loop has ended and some attempt had non-empty output, the
\* result is the output of one of the attempts and not the marked fallback.
C7_BestAttemptNotFallback ==
    ( /\ rt_pc = "done"
      /\ \E k \in 1..Len(rt_hist) : HasContent(rt_hist[k].lines) )
    => /\ IsAttemptOutput(rt_result.lines)
       /\ rt_result.lines[1] # FailMarker

\* C8: when every one of the max_retries+1 attempts had no non-whitespace line
\* the result is the marker line followed by the source lines; every result
\* has a non-whitespace line; a result that is no attempt's output starts
\* with the marker.
C8_FallbackMarked ==
    rt_pc = "done" /\ rt_hist # <<>> =>
        /\ ( /\ Len(rt_hist) = rt_cfg.max_retries + 1
             /\ \A k \in 1..Len(rt_hist) : ~HasContent(rt_hist[k].lines) )
           => rt_result.lines = <<FailMarker>> \o rt_cfg.src
        /\ \E k \in 1..Len(rt_result.lines) : rt_result.lines[k] # "w"
        /\ ~IsAttemptOutput(rt_result.lines) => rt_result.lines[1] = FailMarker

\* every attempt of a budget of more than one came back without content
C8_Witness ==
    /\ rt_pc = "done"
    /\ rt_cfg.max_retries >= 1
    /\ Len(rt_hist) = rt_cfg.max_retries + 1
    /\ \A k \in 1..Len(rt_hist) : ~HasContent(rt_hist[k].lines)
    /\ rt_result.lines = <<FailMarker>> \o rt_cfg.src

\* the tag "endpoint:k" of an endpoint of the pool
IsEndpointTag(cfg, tag, k) == k \in 0..(NumEndpoints(cfg) - 1) /\ tag = endpoint_id(k)

InvalidWeight(w) == w.kind # "num" \/ w.tenths <= 0

CountIn(seq, lo, hi, v) == Cardinality({j \in lo..hi : seq[j] = v})

\* C12: a missing, non-numeric, non-finite or non-positive weight counts as 1;
\* with weights [3, 1] the weights in use are 3 and 1 and, under round robin,
\* every 4 consecutive selections hold endpoint 0 three times and endpoint 1
\* once, whichever callers made them.
C12_WeightedSelection ==
    /\ \A i \in 1..NumEndpoints(pl_cfg) :
          InvalidWeight(pl_cfg.weights[i]) =>
              /\ EndpointWeights(pl_cfg)[i] = 10
              /\ CountIn(EndpointCycle(pl_cfg), 1, Len(EndpointCycle(pl_cfg)), i - 1) = 1
    /\ (pl_cfg.weights = << [kind |-> "num", tenths |-> 30], [kind |-> "num", tenths |-> 10] >>) =>
          /\ EndpointWeights(pl_cfg) = <<30, 10>>
          /\ pl_cfg.strategy = "round_robin" =>
                \A a \in 1..Len(pl_sel) :
                    a + 3 <= Len(pl_sel) =>
                        /\ CountIn(pl_sel, a, a + 3, 0) = 3
                        /\ CountIn(pl_sel, a, a + 3, 1) = 1

\* weights [3, 1] under round robin: five selections, made by both callers
C12_Witness ==
    /\ pl_cfg.strategy = "round_robin"
    /\ pl_cfg.weights = << [kind |-> "num", tenths |-> 30], [kind |-> "num", tenths |-> 10] >>
    /\ Len(pl_sel) >= 5
    /\ pl_pc["c1"] = "build" /\ pl_pc["c2"] = "send_fresh"

\* C13: unequal counts give one pair per line of the longer list, in order,
\* line i paired with line min(floor(i * shorter / longer), shorter - 1) of
\* the shorter list; equal counts pair positionally; one empty side pairs
\* every line with ""; both empty give an empty result.
C13_ProportionalPairs ==
    la_pc = "done" =>
        LET src == NonBlank(la_src)
            dst == NonBlank(la_dst)
            S == Len(src)
            D == Len(dst)
            Partner(i, longer, shorter) == Min((i * shorter) \div longer, shorter - 1)
        IN  /\ (S = 0 /\ D = 0) => la_out = <<>>
            /\ (S > 0 /\ D = 0) => la_out = [j \in 1..S |-> <<src[j], EmptyLine>>]
            /\ (S = 0 /\ D > 0) => la_out = [j \in 1..D |-> <<EmptyLine, dst[j]>>]
            /\ (S = D /\ S > 0) => la_out = [j \in 1..S |-> <<src[j], dst[j]>>]
            /\ (S > D /\ D > 0) =>
                  la_out = [j \in 1..S |-> <<src[j], dst[Partner(j - 1, S, D) + 1]>>]
            /\ (D > S /\ S > 0) =>
                  la_out = [j \in 1..D |-> <<src[Partner(j - 1, D, S) + 1], dst[j]>>]

\* the two examples of C13 and the monotonicity of the partner index, which hold
C13_ExamplesAndOrder ==
    la_pc = "done" =>
        LET src == NonBlank(la_src)
            dst == NonBlank(la_dst)
        IN  /\ (Len(src) = 3 /\ Len(dst) = 2) =>
                  la_out = << <<src[1], dst[1]>>, <<src[2], dst[1]>>, <<src[3], dst[2]>> >>
            /\ (Len(src) = 2 /\ Len(dst) = 4) =>
                  la_out = << <<src[1], dst[1]>>, <<src[1], dst[2]>>,
                              <<src[2], dst[3]>>, <<src[2], dst[4]>> >>
            /\ Len(la_out) = Max(Len(src), Len(dst))
            /\ \A j \in 1..(Len(la_out) - 1) :
                  /\ la_out[j][1].n <= la_out[j + 1][1].n
                  /\ la_out[j][2].n <= la_out[j + 1][2].n

\* C14: once the accumulated content text ends with 20 identical characters
\* the stream is aborted: no later chunk of that stream is consumed or
\* passed to the chunk callback.
C14_AbortAtTwentyIdentical ==
    [][ (en_pc = "stream" /\ EndsWithRun(en_text, CharLoopLen))
            => (en_cb' = en_cb /\ en_chunks' = en_chunks /\ en_text' = en_text) ]_vars

\* the part of C14 that holds: a text of more than 20 characters that ends
\* with 20 identical ones is not extended
C14_AbortAboveTwenty ==
    (en_pc = "stream" /\ EndsWithRun(en_text, CharLoopLen)) => Len(en_text) = CharLoopLen

\* C15: requests are issued one at a time in ladder order, at most one per
\* ladder value; a stream that ends without a detected loop ends the call
\* with its text; a detected loop at a non-final value moves to the next
\* value, at the final value the truncated text is returned.
C15_LadderOrder ==
    /\ [](\A j \in 1..Len(en_reqs) : en_reqs[j] = j - 1 /\ j <= Len(Attempts(en_cfg)))
    /\ [](en_pc = "stream" => en_reqs[Len(en_reqs)] = en_idx)
    /\ []((en_hist # <<>> /\ en_hist[Len(en_hist)] = "ok") =>
              (en_pc = "returned" /\ en_ret.text = en_text))
    /\ [][ /\ (en_pc = "returned" /\ en_calls' = en_calls) => en_reqs' = en_reqs
           /\ (en_pc = "stream" /\ en_text' # en_text /\ LoopDetected(en_text')) =>
                 IF en_idx < Len(Attempts(en_cfg)) - 1
                   THEN en_pc' = "request" /\ en_idx' = en_idx + 1
                   ELSE en_pc' = "returned" /\ en_ret'.text = en_text' ]_vars

\* a ladder of three values: the first two streams looped, the third ended normally
C15_Witness ==
    /\ Len(Attempts(en_cfg)) = 3
    /\ en_hist = <<"loop", "loop", "ok">>
    /\ en_reqs = <<0, 1, 2>>
    /\ en_pc = "returned"
    /\ en_ret.text = <<".">>

\* C16: a transport error at the final ladder value makes the call return
\* empty text; after one at a non-final value no further request is issued.
C16_TransportErrorStops ==
    \A j \in 1..Len(en_hist) :
        en_hist[j] = "error" =>
            /\ Len(en_reqs) = j
            /\ (en_pc = "returned" /\ j = Len(Attempts(en_cfg))) => en_ret.text = <<>>

\* the part of C16 that holds: an error at the final value returns empty text
C16_FinalErrorEmpty ==
    (en_hist # <<>> /\ en_hist[Len(en_hist)] = "error"
        /\ Len(en_hist) = Len(Attempts(en_cfg))) =>
            (en_pc = "returned" /\ en_ret.text = <<>>)

\* the direction the claim gives the temperature of attempt n (n >= 1), whose
\* retry was driven by the failure recorded in rt_events[n]
TemperatureDirectionHolds(n) ==
    IF rt_events[n].type = "glossary"
      THEN rt_calls[n + 1].temp <= rt_calls[n].temp
      ELSE rt_calls[n + 1].temp >= rt_calls[n].temp

\* C17: for every retry attempt n >= 1 of a block, if the failure driving the
\* retry is a glossary miss the attempt's temperature is not higher than the
\* previous attempt's, otherwise it is not lower; for every base temperature in
\* the documented range 0.1 to 1.5 and every non-negative boost.
C17_TemperatureDirection ==
    ( /\ rt_cfg.temperature >= MinTemperature
      /\ rt_cfg.temperature <= MaxTemperature
      /\ rt_cfg.retry_temp_boost >= 0 )
    => \A n \in 1..(Len(rt_calls) - 1) : TemperatureDirectionHolds(n)

\* the direction does hold for every base temperature inside the clamp band
C17_DirectionInsideClampBand ==
    ( /\ rt_cfg.temperature >= TempFloor
      /\ rt_cfg.temperature <= TempCeil
      /\ rt_cfg.retry_temp_boost >= 0 )
    => \A n \in 1..(Len(rt_calls) - 1) : TemperatureDirectionHolds(n)

OtherFailure == {"empty", "line_check"}

\* the step is one attempt of the block, whose parsed output is `out`
AttemptStep(out) ==
    /\ Len(rt_hist') = Len(rt_hist) + 1
    /\ rt_hist'[Len(rt_hist')] = out

\* the step wrote a JSON_RETRY event of the given type, i.e. triggered a retry
RetryTriggered(type) ==
    /\ Len(rt_events') = Len(rt_events) + 1
    /\ rt_events'[Len(rt_events')].type = type

\* C18: once the block's retry reason has been set to an empty-output or
\* line-count failure, a later glossary miss triggers no retry, does not change
\* the retry reason and gets no glossary feedback injected; a glossary miss
\* triggers a retry only while no other failure has driven a retry of the block.
C18_OtherFailureHasPriority ==
    /\ [] ( \A j \in 1..Len(rt_calls) :
               rt_calls[j].reason \in OtherFailure =>
                   \A k \in j..Len(rt_calls) :
                       /\ ~rt_calls[k].feedback
                       /\ rt_calls[k].reason \in OtherFailure )
    /\ [] ( \A n \in 1..Len(rt_events) :
               rt_events[n].type = "glossary" =>
                   \A m \in 1..n : rt_events[m].type = "glossary" )
    /\ [][ \A out \in Outputs(rt_cfg) :
              ( AttemptStep(out) /\ rt_reason \in OtherFailure
                /\ GlossaryMissing(rt_cfg, out) )
              => /\ ~RetryTriggered("glossary")
                 /\ rt_reason' \in OtherFailure
                 /\ (rt_reason' # rt_reason => RetryTriggered("line_check")) ]_vars

\* a glossary miss on the second attempt, after an empty first one, ended the
\* loop although attempts and coverage retries remained
C18_Witness ==
    /\ rt_pc = "done"
    /\ Len(rt_hist) = 2
    /\ rt_cfg.max_retries >= 2
    /\ rt_cfg.coverage_retries >= 3
    /\ ~HasContent(rt_hist[1].lines)
    /\ GlossaryMissing(rt_cfg, rt_hist[2])
    /\ rt_reason = "empty"
    /\ rt_calls[2].feedback = FALSE

\* the failure condition the claim gives for s source and d output lines
LineGateFails(s, d, tol_abs, tol_pct) ==
    \/ Abs(d - s) > tol_abs
    \/ Abs(d - s) * 100 > tol_pct * (IF s >= 1 THEN s ELSE 1)

C20_WarmupThenStreak ==
    [][ /\ ( ac_total' = ac_total + 1 /\ ac_total' <= ac_cfg.warmup_successes )
            => ac_current' = IF ac_current = ac_cfg.max_limit
                               THEN ac_current ELSE ac_current + 1
        /\ ac_current' > ac_current
            => /\ ac_total' = ac_total + 1
               /\ ac_current' = ac_current + 1
               /\ ac_total' > ac_cfg.warmup_successes
                     => ac_run + 1 = ac_cfg.success_target ]_vars

\* one warm-up success and then two consecutive successes raised the limit twice
C20_Witness ==
    /\ ac_cfg.warmup_successes = 1
    /\ ac_cfg.success_target = 2
    /\ ac_total = 3
    /\ ac_current = ac_cfg.start + 2
    /\ ac_run = 0

\* C21: for an endpoint with rpm = R > 0 and any number of concurrent callers,
\* the limiter admits at most R sends within any span of 60 seconds, including
\* spans that straddle a window reset.
C21_RollingWindow ==
    lm_rpm > 0 => Len(lm_ages) <= lm_rpm

\* what the fixed window does guarantee: at most 2R admissions in any 60 seconds
C21_TwiceRpmInAnySpan ==
    lm_rpm > 0 => Len(lm_ages) <= 2 * lm_rpm

\* C22: a caller of acquire is never failed because the quota is used up: it
\* is blocked and, as time advances past the window reset and with finitely
\* many competing calls, it is eventually admitted; the limiter's lock is not
\* held while the caller sleeps.
C22_BlockedThenAdmitted ==
    /\ [] ( \A c \in Callers :
              /\ lm_pc[c] \in {"idle", "enter", "locked", "sleep"}
              /\ lm_pc[c] = "sleep" => lm_lock # c
              /\ lm_lock = c => lm_pc[c] = "locked" )
    /\ \A c \in Callers : (lm_pc[c] # "idle") ~> (lm_pc[c] = "idle")

\* a caller that found the quota used up has slept and then been admitted
C22_Witness ==
    \E c \in Callers :
        /\ lm_rpm > 0
        /\ lm_slept[c]
        /\ lm_pc[c] = "idle"
        /\ lm_lock = NoHolder

\* C23: when the main loop reaches a block while the pause signal is present,
\* no inference for that block is started for as long as the signal stays
\* present; once the signal is removed the loop eventually continues with that
\* same block, and no block is skipped or translated twice because of a pause.
C23_PauseHoldsTheBlock ==
    /\ [][ (ps_pc \in {"loop", "paused"} /\ ps_signal /\ ps_i < ps_cfg.n)
             => ( /\ ps_started' = ps_started
                  /\ ps_i' = ps_i \/ ps_i < ps_cfg.skip
                  /\ ps_pc' # "process" ) ]_vars
    /\ \A k \in 0..(NumBlocks - 1) :
          [] ( (ps_pc = "paused" /\ ps_i = k /\ [](~ps_signal))
                 => <>(Len(ps_started) > 0 /\ ps_started[Len(ps_started)] = k) )
    /\ [] ( /\ Len(ps_started) = (IF ps_i > ps_cfg.skip THEN ps_i - ps_cfg.skip ELSE 0)
            /\ \A j \in 1..Len(ps_started) : ps_started[j] = ps_cfg.skip + j - 1 )
    /\ [] ( ps_pc = "done" => Len(ps_started) = ps_cfg.n - ps_cfg.skip )

\* the loop paused at a block, was resumed, and every block from skip_blocks
\* on was translated
C23_Witness ==
    /\ ps_pc = "done"
    /\ ps_waited # {}
    /\ Len(ps_started) = ps_cfg.n - ps_cfg.skip

\* the requests sent by attempt a, in order
RECURSIVE SentBy(_, _)
SentBy(sent, a) ==
    IF sent = <<>> THEN <<>>
    ELSE IF Head(sent).attempt = a THEN <<Head(sent)>> \o SentBy(Tail(sent), a)
    ELSE SentBy(Tail(sent), a)

\* the longest ladder of any attempt the block can make
RECURSIVE LongestLadder(_, _)
LongestLadder(cfg, a) ==
    LET len == Len(Ladder(cfg.rep_base + a * cfg.boost, cfg.rep_max))
    IN  IF a = 0 THEN len ELSE Max(len, LongestLadder(cfg, a - 1))

\* C24: for every block and every behaviour of the inference client, the
\* translator issues at most max_retries+1 attempts and then reaches a result
\* (an attempt's output or the fallback); each attempt issues at most one
\* request per ladder value, so the number of requests per block is bounded by
\* (max_retries+1) times the ladder length and the per-block loop terminates.
C24_BoundedAttemptsAndRequests ==
    /\ [] ( /\ bk_attempt <= bk_cfg.max_retries
            /\ \A a \in 0..bk_cfg.max_retries :
                 LET reqs == SentBy(bk_sent, a)
                     ladder == Ladder(bk_cfg.rep_base + a * bk_cfg.boost, bk_cfg.rep_max)
                 IN  /\ Len(reqs) <= Len(ladder)
                     /\ \A j \in 1..Len(reqs) : reqs[j].idx = j - 1
                     /\ a > bk_attempt => reqs = <<>>
            /\ Len(bk_sent) <= (bk_cfg.max_retries + 1)
                                  * LongestLadder(bk_cfg, bk_cfg.max_retries)
            /\ bk_pc = "done" => bk_result \in {"attempt", "fallback"} )
    /\ <>(bk_pc = "done")

\* every attempt ran down its whole ladder and the block ended with the fallback
C24_Witness ==
    /\ bk_pc = "done"
    /\ bk_result = "fallback"
    /\ bk_cfg.max_retries >= 1
    /\ bk_attempt = bk_cfg.max_retries
    /\ Len(bk_sent) > bk_cfg.max_retries + 1
    /\ \A a \in 0..bk_cfg.max_retries :
          Len(SentBy(bk_sent, a))
              = Len(Ladder(bk_cfg.rep_base + a * bk_cfg.boost, bk_cfg.rep_max))

\* C25: every repetition-penalty value sent in a request, over all attempts of
\* a block and all ladder steps of each attempt, is at least the configured
\* base penalty and at most the configured maximum penalty; within one
\* chat_completion call the values start at that call's base and strictly
\* increase.
C25_PenaltyWithinBaseAndMax ==
    /\ \A j \in 1..Len(bk_sent) :
          /\ bk_sent[j].penalty >= bk_cfg.rep_base
          /\ bk_sent[j].penalty <= bk_cfg.rep_max
    /\ \A a \in 0..bk_cfg.max_retries :
          LET reqs == SentBy(bk_sent, a)
          IN  /\ reqs # <<>> => reqs[1].penalty = bk_cfg.rep_base + a * bk_cfg.boost
              /\ \A j \in 2..Len(reqs) : reqs[j].penalty > reqs[j - 1].penalty

\* what does hold: no value is below the configured base, every call starts
\* at its own base and its values strictly increase
C25_IncreasingFromCallBase ==
    /\ \A j \in 1..Len(bk_sent) : bk_sent[j].penalty >= bk_cfg.rep_base
    /\ \A a \in 0..bk_cfg.max_retries :
          LET reqs == SentBy(bk_sent, a)
          IN  /\ reqs # <<>> => reqs[1].penalty = bk_cfg.rep_base + a * bk_cfg.boost
              /\ \A j \in 2..Len(reqs) : reqs[j].penalty > reqs[j - 1].penalty

\* the coverage recorded for the k-th attempt of the history h
CoverageOf(h, k) ==
    calculate_glossary_coverage(h[k].hit, h[k].cot, rt_cfg.total).coverage

\* the attempts of h that went through the glossary gate
Evaluated(h) == { k \in 1..Len(h) : HasContent(h[k].lines) }

\* the earliest attempt of h with the highest coverage
BestOf(h) ==
    CHOOSE k \in Evaluated(h) :
        /\ \A j \in Evaluated(h) : CoverageOf(h, j) <= CoverageOf(h, k)
        /\ \A j \in Evaluated(h) : CoverageOf(h, j) = CoverageOf(h, k) => j >= k

C27_OneRetryEventPerFailedAttempt ==
    /\ [] ( /\ Len(rt_events) = rt_attempt
            /\ Len(rt_hist) = (IF rt_pc = "done" /\ rt_cfg.src # <<>>
                                 THEN rt_attempt + 1 ELSE rt_attempt)
            /\ \A n \in 1..Len(rt_events) :
                 /\ rt_events[n].block = rt_cfg.i + 1
                 /\ rt_events[n].attempt = n
                 /\ rt_events[n].type \in {"empty", "glossary", "line_check"}
                 /\ rt_events[n].type = "empty" <=> ~HasContent(rt_hist[n].lines)
                 /\ rt_events[n].type = "glossary" => GlossaryMissing(rt_cfg, rt_hist[n])
                 /\ rt_events[n].type = "line_check" => rt_cfg.line_check )
    /\ [][ rt_pc' = "done" => rt_events' = rt_events ]_vars

\* a block of index 1 was retried for each of the three reasons and then accepted
C27_Witness ==
    /\ rt_pc = "done"
    /\ rt_cfg.i = 1
    /\ Len(rt_hist) = 3
    /\ Len(rt_events) = 2
    /\ rt_events[1].type = "glossary"
    /\ rt_events[2].type = "line_check"
    /\ HasContent(rt_result.lines)

\* C28: when a stream carries no usage event, the completion-token count that
\* chat_completion reports in last_usage is the number of non-empty content
\* and reasoning chunks consumed by the request whose text is returned; it
\* includes no chunk of an earlier chat_completion call on the same engine nor
\* of an earlier ladder request of the same call.
C28_FallbackCountsReturnedRequest ==
    ( /\ en_pc = "returned"
      /\ en_cfg.stream
      /\ en_hist # <<>>
      /\ en_hist[Len(en_hist)] \in {"ok", "loop"}
      /\ en_usage.source = "fallback" )
    => en_usage.completion_tokens = en_chunks

\* it does hold for the first call on an engine when the first ladder request
\* is the one that returns
C28_FirstCallFirstRequest ==
    ( /\ en_pc = "returned"
      /\ en_cfg.stream
      /\ en_calls = 1
      /\ en_hist \in {<<"ok">>, <<"loop">>}
      /\ en_usage.source = "fallback" )
    => en_usage.completion_tokens = en_chunks

\* the last L characters of text equal the L characters before them
RepeatsLast(text, L) ==
    /\ 2 * L <= Len(text)
    /\ \A j \in 1..L : text[Len(text) - L + j] = text[Len(text) - 2 * L + j]

\* C29: a stream is aborted as soon as, for some L with
\* 20 <= L <= min(1000, len/2), the last L characters of the accumulated
\* content equal the L characters before them (L = len/2 and texts of 40 to
\* 60 characters included): no stream is still being read with such a text.
C29_AbortOnRepeatedPhrase ==
    en_pc = "stream" =>
        ~ \E L \in PhraseMinLen..Min(PhraseMaxLen, Len(en_text) \div 2) :
              RepeatsLast(en_text, L)

\* the part of C29 that holds: a text of more than 60 characters whose last L
\* characters repeat the L before them, 20 <= L < min(1000, len/2), is aborted
C29_AbortAboveSixty ==
    en_pc = "stream" =>
        ~ ( /\ Len(en_text) > PhraseGuardLen
            /\ \E L \in PhraseMinLen..(Min(PhraseMaxLen, Len(en_text) \div 2) - 1) :
                  RepeatsLast(en_text, L) )

\* a stream closed by the phrase test alone: 80 characters, period 20
C29_PhraseLoopDetected ==
    /\ en_hist # <<>> /\ en_hist[Len(en_hist)] = "loop"
    /\ en_text = Phrase \o Phrase \o Phrase \o Phrase
    /\ ~EndsWithRun(en_text, CharLoopLen)

\* the number of times line l of block b stands in the file
Copies(file, b, l) ==
    Cardinality({ j \in 1..Len(file) : file[j] = [block |-> b, line |-> l] })

\* C30: in a resumed run over an existing output of E lines, every skipped
\* block (index < skip_blocks) is completely present in the existing output,
\* and after the run the output file holds the translation of every block
\* exactly once.
C30_ResumeExactlyOnce ==
    (rs_resume /\ rs_pc # "start") =>
        /\ \A b \in 0..(rs_skip - 1) : \A l \in 1..rs_blocks[b + 1] :
              Copies(rs_existing, b, l) = 1
        /\ rs_pc = "done" =>
              \A b \in 0..(Len(rs_blocks) - 1) : \A l \in 1..rs_blocks[b + 1] :
                  Copies(rs_file, b, l) = 1

\* the part of C30 that holds: the skipped blocks are completely present in
\* the existing output, and after the run no line of any block is missing
C30_SkippedBlocksPresent ==
    (rs_resume /\ rs_pc # "start") =>
        /\ \A b \in 0..(rs_skip - 1) : \A l \in 1..rs_blocks[b + 1] :
              Copies(rs_existing, b, l) = 1
        /\ rs_pc = "done" =>
              \A b \in 0..(Len(rs_blocks) - 1) : \A l \in 1..rs_blocks[b + 1] :
                  Copies(rs_file, b, l) >= 1

\* whenever blocks are skipped, the block translation restarts at already has
\* lines in the file, and they are written again
C30_RestartBlockAlreadyInFile ==
    (rs_resume /\ rs_pc = "done" /\ rs_skip > 0 /\ rs_skip < Len(rs_blocks)) =>
        Copies(rs_file, rs_skip, 1) = 2

\* a resumed run that skipped a block and ran to the end
C30_ResumedRunDone ==
    /\ rs_resume /\ rs_pc = "done"
    /\ rs_skip = 1 /\ Len(rs_blocks) = MaxResumeBlocks
    /\ Len(rs_existing) = rs_blocks[1] + rs_blocks[2]

====
